---- MODULE Spec2Model ----
(***************************************************************************)
(* Model of the Places To Visit API backend: the entitlement resolver      *)
(* (planAllows), the PayPal create-order / capture-order routes with the   *)
(* users.json credit, and the city generator (generateCityInFile).         *)
(*                                                                         *)
(* Strings the code transforms (e-mails, city names) are sequences of      *)
(* Unicode code points, so trim / toLowerCase / NFD folding / collation    *)
(* are computed, not assumed.  Plan names, currencies, statuses and ids    *)
(* are only compared by the code and stay TLA+ strings.                    *)
(***************************************************************************)
EXTENDS Integers, Sequences, FiniteSets, TLC

VARIABLES
    planArg,      \* planAllows: the `plan` argument of the call under test
    allowedArg,   \* planAllows: the `allowed` list of the call under test
    planRes,      \* planAllows: [called, value] result of the call
    config,       \* process environment read at module load (webhook.js 11, 25-28)
    users,        \* content of data/users.json: sequence of user records
    orders,       \* payment oracle: state of every order id
    capCalls,     \* capture-order requests suspended at `await paypalRequest`
    payState,     \* per order: position in the payment life cycle (history)
    credits,      \* per order: number of credits written for it (history)
    lastPay,      \* the HTTP response last sent by a payment route
    ledger,       \* tokens granted by successful captures, and whether two
                  \* captures for one user overlapped (history)
    country,      \* content of the country file: [name, cities]
    genCalls,     \* generateCityInFile calls suspended at the oracle await
    lastGen,      \* the outcome of the generate call that finished last
    raced,        \* normalized names created while the file already held them (history)
    fileArg,      \* the resource name of the country-file request under test
    fileRes,      \* that request's outcome: [called, http, path read]
    pending,      \* content of data/pending_users.json: sequence of entries
    authCalls,    \* signup / confirm requests suspended at a file or mail await
    lastAuth,     \* the HTTP response last sent by an auth route
    audit,        \* tokens issued, mailed, found and confirmed so far (history),
                  \* and the millisecond Date.now() returned last
    findArg,      \* findCountryFileByName: the country name of the call under test
    findDir,      \* the files of the countries directory, in readdir order
    findRes,      \* findCountryFileByName: [called, threw, found, file, country]
    readArg,      \* the collection file of the read under test: [cond, content]
    readRes,      \* that read's outcome: [called, reader, threw, value]
    lastAsk,      \* the HTTP response last sent by an AI guide route
    sessions,     \* the payloads of the session tokens issued so far
    lastMe        \* the response last sent by GET /api/auth/me

vars == << planArg, allowedArg, planRes, config, users, orders, capCalls,
           payState, credits, lastPay, ledger, country, genCalls, lastGen, raced,
           fileArg, fileRes, pending, authCalls, lastAuth, audit,
           findArg, findDir, findRes, readArg, readRes, lastAsk, sessions, lastMe >>

planVars == << planArg, allowedArg, planRes >>
payVars  == << config, users, orders, capCalls, payState, credits, lastPay, ledger >>
cityVars == << country, genCalls, lastGen, raced >>
fileVars == << fileArg, fileRes >>
authVars == << pending, authCalls, lastAuth, audit >>
payRest  == << config, orders, capCalls, payState, credits, lastPay, ledger >>
findVars == << findArg, findDir, findRes >>
readVars == << readArg, readRes >>
sessVars == << sessions, lastMe >>
toolVars == << findArg, findDir, findRes, readArg, readRes, lastAsk, sessions, lastMe >>

(***************************************************************************)
(* Bounds of the model.                                                    *)
(***************************************************************************)
MaxAllowed == 2     \* longest `allowed` list handed to planAllows
MaxOrders  == 2     \* order ids the payment oracle can hand out
MaxCalls   == 2     \* capture-order requests in flight at once
MaxGen     == 2     \* generateCityInFile calls in flight at once
MaxStem    == 5     \* longest resource name explored, its ".json" ending apart
MaxAuth    == 2     \* signup / confirm requests in flight at once
MaxTokens  == 2     \* confirmation tokens handed out by signup
MaxFiles   == 2     \* files in the countries directory
MaxRecords == 3     \* records in a collection file that is read

(***************************************************************************)
(* Code points of the characters used in the inputs: space, A, B, a, b, l, *)
(* m, A/a with acute (NFD: letter + U+0301), L/l with stroke (no canonical *)
(* decomposition), and the combining acute accent U+0301.                  *)
(***************************************************************************)
Ch == [ sp |-> 32, A |-> 65, B |-> 66, a |-> 97, b |-> 98, l |-> 108, m |-> 109,
        Aacute |-> 193, aacute |-> 225, Lstroke |-> 321, lstroke |-> 322,
        acute |-> 769 ]

MarkLo == 768       \* U+0300, first code point removed by normalizeName
MarkHi == 879       \* U+036F, last code point removed by normalizeName

(***************************************************************************)
(* String primitives of the JavaScript runtime, on code point sequences.   *)
(***************************************************************************)
\* String.prototype.toLowerCase, one character
LowerChar(c) ==
    IF c \in 65..90 THEN c + 32
    ELSE IF c = Ch.Aacute THEN Ch.aacute
    ELSE IF c = Ch.Lstroke THEN Ch.lstroke
    ELSE c

ToLowerCase(s) == [i \in 1..Len(s) |-> LowerChar(s[i])]

RECURSIVE TrimStart(_)
TrimStart(s) ==
    IF s # << >> /\ Head(s) = Ch.sp THEN TrimStart(Tail(s)) ELSE s

RECURSIVE TrimEnd(_)
TrimEnd(s) ==
    IF s # << >> /\ s[Len(s)] = Ch.sp THEN TrimEnd(SubSeq(s, 1, Len(s) - 1)) ELSE s

\* String.prototype.trim
Trim(s) == TrimEnd(TrimStart(s))

\* canonical decomposition of one character
DecomposeChar(c) ==
    IF c = Ch.aacute THEN << Ch.a, Ch.acute >>
    ELSE IF c = Ch.Aacute THEN << Ch.A, Ch.acute >>
    ELSE << c >>

RECURSIVE NormalizeNFD(_)
NormalizeNFD(s) ==
    IF s = << >> THEN << >> ELSE DecomposeChar(Head(s)) \o NormalizeNFD(Tail(s))

\* .replace(/[\u0300-\u036f]/g, "")
RECURSIVE StripMarks(_)
StripMarks(s) ==
    IF s = << >> THEN << >>
    ELSE IF Head(s) \in MarkLo..MarkHi THEN StripMarks(Tail(s))
    ELSE << Head(s) >> \o StripMarks(Tail(s))

\* string literals of the model, written from their characters
Lower == << "a", "b", "c", "d", "e", "f", "g", "h", "i", "j", "k", "l", "m",
            "n", "o", "p", "q", "r", "s", "t", "u", "v", "w", "x", "y", "z" >>

Upper == << "A", "B", "C", "D", "E", "F", "G", "H", "I", "J", "K", "L", "M",
            "N", "O", "P", "Q", "R", "S", "T", "U", "V", "W", "X", "Y", "Z" >>

\* the code point of a character: a letter, else ' ( ) or the space
CodeOf(c) ==
    IF \E i \in 1..Len(Lower) : Lower[i] = c
    THEN 96 + (CHOOSE i \in 1..Len(Lower) : Lower[i] = c)
    ELSE IF \E i \in 1..Len(Upper) : Upper[i] = c
    THEN 64 + (CHOOSE i \in 1..Len(Upper) : Upper[i] = c)
    ELSE IF c = "'" THEN 39
    ELSE IF c = "(" THEN 40
    ELSE IF c = ")" THEN 41
    ELSE Ch.sp

Str(chars) == [i \in 1..Len(chars) |-> CodeOf(chars[i])]

\* the < operator of JavaScript on strings: code unit order
RECURSIVE CodeUnitLess(_, _)
CodeUnitLess(a, b) ==
    IF b = << >> THEN FALSE
    ELSE IF a = << >> THEN TRUE
    ELSE IF Head(a) # Head(b) THEN Head(a) < Head(b)
    ELSE CodeUnitLess(Tail(a), Tail(b))

(***************************************************************************)
(* JavaScript values whose type the code depends on.                       *)
(***************************************************************************)
JsNum(n)    == [t |-> "number", v |-> n]
JsUndefined == [t |-> "undefined", v |-> 0]
JsNull      == [t |-> "null", v |-> 0]
JsObject    == [t |-> "object", v |-> 0]

\* Number.isFinite(value); typeof value === "number" && !Number.isNaN(value)
IsFiniteNumber(x) == x.t = "number"

(***************************************************************************)
(* Entitlement resolver.                                                   *)
(***************************************************************************)
PLAN_RANK == [free |-> 0, basic |-> 1, premium |-> 2, premium_plus |-> 3]

\* names every object literal inherits from Object.prototype
ObjectPrototypeKeys == {"toString", "constructor"}

\* PLAN_RANK[key]: an own property, else a member found on the prototype
\* chain (a function object), else undefined
PlanRankGet(key) ==
    IF key \in DOMAIN PLAN_RANK THEN JsNum(PLAN_RANK[key])
    ELSE IF key \in ObjectPrototypeKeys THEN JsObject
    ELSE JsUndefined

RECURSIVE MinOfSeq(_)
MinOfSeq(s) ==
    IF Len(s) = 1 THEN s[1].v
    ELSE LET m == MinOfSeq(Tail(s)) IN IF s[1].v < m THEN s[1].v ELSE m

planAllows(plan, allowed) ==
    LET got  == PlanRankGet(plan)
        rank == IF got.t \in {"undefined", "null"} THEN JsNum(0) ELSE got
        allowedRanks ==
            SelectSeq([i \in 1..Len(allowed) |-> PlanRankGet(allowed[i])],
                      IsFiniteNumber)
    IN  IF Len(allowedRanks) = 0 THEN FALSE
        ELSE IF \A i \in 1..Len(allowedRanks) :
                    allowedRanks[i] = JsNum(PLAN_RANK.free)
             THEN rank = JsNum(PLAN_RANK.free)
        ELSE \* a non-number operand of >= converts to NaN: false
             rank.t = "number" /\ rank.v >= MinOfSeq(allowedRanks)

\* values req.user?.plan can carry: the four plans, an unknown name, a
\* missing plan (the key "undefined"), a name found on Object.prototype
PlanInputs == {"free", "basic", "premium", "premium_plus",
               "gold", "undefined", "toString"}

AllowedNames == {"free", "basic", "premium", "premium_plus", "gold", "toString"}

AllowedLists ==
    UNION { [1..n -> AllowedNames] : n \in 0..MaxAllowed }

PlanIdle ==
    /\ planArg = "free"
    /\ allowedArg = << >>
    /\ planRes = [called |-> FALSE, value |-> FALSE]

PlanInit ==
    /\ planArg \in PlanInputs
    /\ allowedArg \in AllowedLists
    /\ planRes = [called |-> FALSE, value |-> FALSE]

\* one evaluation of planAllows(plan, allowed)
CallPlanAllows ==
    /\ ~planRes.called
    /\ planRes' = [called |-> TRUE, value |-> planAllows(planArg, allowedArg)]
    /\ UNCHANGED << planArg, allowedArg >>

(***************************************************************************)
(* Payment reconciliation (routes/webhook.js).                             *)
(* Amounts are integers in thousandths of a currency unit, so that the     *)
(* rounding of toFixed(2) is computed.  JsNum(n) is an input that          *)
(* Number() turns into n/1000, JsUndefined one that Number() turns into    *)
(* NaN (missing, non-numeric).  Inputs exactly half way between two        *)
(* hundredths are left out: there toFixed depends on the binary double.    *)
(***************************************************************************)
AMOUNT_TO_TOKENS == (5 :> 7) @@ (10 :> 20) @@ (20 :> 50)

AMOUNT_TO_PLAN == (5 :> "basic") @@ (10 :> "premium") @@ (20 :> "premium_plus")

\* String(value || "").trim().toLowerCase(); a missing value is << >>
normalizeEmail(value) == ToLowerCase(Trim(value))

\* Number(amount.toFixed(2)) on thousandths: the nearest hundredth
ToFixed2(v) == ((v + 5) \div 10) * 10

normalizeAmountValue(value) ==
    IF ~IsFiniteNumber(value) THEN JsNull ELSE JsNum(ToFixed2(value.v))

\* table[amount] is defined: the key String(amount) is one of "5", "10", "20"
HasAmountKey(table, amount) ==
    /\ amount.t = "number"
    /\ amount.v % 1000 = 0
    /\ (amount.v \div 1000) \in DOMAIN table

AmountKey(amount) == amount.v \div 1000

\* resolveAllowedAmount that lets every positive amount through
resolveAllowedAmount_anyPositive(amount) ==
    IF amount.t = "number" /\ amount.v > 0 THEN amount ELSE JsNull

resolveAllowedAmount(amount) ==
    IF ~HasAmountKey(AMOUNT_TO_TOKENS, amount) THEN JsNull ELSE amount

\* !value for a number or null
Falsy(x) == x.t # "number" \/ x.v = 0

\* paypalRequest without the response.ok check
paypalRequest_noOkCheck(ok, message, body) ==
    [threw |-> FALSE, status |-> 0, data |-> body, message |-> ""]

\* paypalRequest: the parsed body, or a 502 error when the reply is not ok,
\* with the message of the reply (data?.message || "PayPal request failed.")
paypalRequest(ok, message, body) ==
    IF ~ok
    THEN [threw |-> TRUE, status |-> 502, data |-> body,
          message |-> IF message # "" THEN message ELSE "PayPal request failed."]
    ELSE [threw |-> FALSE, status |-> 0, data |-> body, message |-> ""]

\* users.find that compares the stored e-mail as it is
FirstIndexByEmail_raw(us, normalized) ==
    LET S == { i \in 1..Len(us) : us[i].email = normalized }
    IN  IF S = {} THEN 0 ELSE CHOOSE i \in S : \A j \in S : i <= j

\* users.find(...): index of the first match, 0 when there is none
FirstIndexByEmail(us, normalized) ==
    LET S == { i \in 1..Len(us) : normalizeEmail(us[i].email) = normalized }
    IN  IF S = {} THEN 0 ELSE CHOOSE i \in S : \A j \in S : i <= j

\* creditTokensForUser that assigns the granted tokens instead of adding them
creditTokensForUser_overwrite(us, email, amount) ==
    IF ~HasAmountKey(AMOUNT_TO_TOKENS, amount) \/ ~HasAmountKey(AMOUNT_TO_PLAN, amount)
    THEN [status |-> 400, error |-> "Unsupported amount.", users |-> us,
          idx |-> 0, tokens |-> 0]
    ELSE
    LET tokens == AMOUNT_TO_TOKENS[AmountKey(amount)]
        plan   == AMOUNT_TO_PLAN[AmountKey(amount)]
        idx    == FirstIndexByEmail(us, normalizeEmail(email))
    IN  IF idx = 0
        THEN [status |-> 404, error |-> "User not found.", users |-> us,
              idx |-> 0, tokens |-> 0]
        ELSE [status |-> 0, error |-> "",
              users  |-> [us EXCEPT ![idx].tokens = JsNum(tokens), ![idx].plan = plan],
              idx    |-> idx,
              tokens |-> tokens]

\* creditTokensForUser: status 0 is a normal return; `users` is the content
\* of users.json when the function returns or throws
creditTokensForUser(us, email, amount) ==
    IF ~HasAmountKey(AMOUNT_TO_TOKENS, amount) \/ ~HasAmountKey(AMOUNT_TO_PLAN, amount)
    THEN [status |-> 400, error |-> "Unsupported amount.", users |-> us,
          idx |-> 0, tokens |-> 0]
    ELSE
    LET tokens == AMOUNT_TO_TOKENS[AmountKey(amount)]
        plan   == AMOUNT_TO_PLAN[AmountKey(amount)]
        idx    == FirstIndexByEmail(us, normalizeEmail(email))
    IN  IF idx = 0
        THEN [status |-> 404, error |-> "User not found.", users |-> us,
              idx |-> 0, tokens |-> 0]
        ELSE LET base == IF IsFiniteNumber(us[idx].tokens) THEN us[idx].tokens.v ELSE 0
             IN  [status |-> 0, error |-> "",
                  users  |-> [us EXCEPT ![idx].tokens = JsNum(base + tokens),
                                        ![idx].plan = plan],
                  idx    |-> idx,
                  tokens |-> tokens]

\* signUserToken: the JWT payload, or a 500 error without a secret
signUserToken(user, secretSet) ==
    IF ~secretSet
    THEN [threw |-> TRUE, status |-> 500, error |-> "JWT secret is not configured.",
          payload |-> [userId |-> "", email |-> << >>, plan |-> ""]]
    ELSE [threw |-> FALSE, status |-> 0, error |-> "",
          payload |-> [userId |-> user.id, email |-> user.email, plan |-> user.plan]]

OrderIds == 1..MaxOrders
CallIds  == 1..MaxCalls

\* orderId of a capture request: an order id, or 0 for a blank orderId
OrderInputs == 0..MaxOrders

\* req.user.email of the session: " A" and "b" name the two users once
\* normalized, "m" names nobody
SessionEmails == { << Ch.sp, Ch.A >>, << Ch.b >>, << Ch.m >> }

\* the sessions of the race specification: user u1 and nobody
RaceEmails == { << Ch.sp, Ch.A >>, << Ch.m >> }

\* req.body.amount of create-order
AmountInputs == { JsNum(5000), JsNum(5004), JsNum(4996), JsNum(5040), JsNum(7000),
                  JsNum(10000), JsNum(20000), JsNum(0), JsUndefined }

\* what the capture reply holds for purchase_units[0].payments.captures[0]
\* (status, amount.value, amount.currency_code), for the order's own status
\* and for purchase_units[0].payee.merchant_id; "" is a missing field
EmptyBody == [capStatus |-> "", orderStatus |-> "", value |-> JsUndefined,
              currency |-> "", payee |-> ""]

\* a completed capture in EUR of `value` for the payee `payee`
GoodBody(value, payee) ==
    [capStatus |-> "COMPLETED", orderStatus |-> "COMPLETED", value |-> value,
     currency |-> "EUR", payee |-> payee]

\* the replies explored: the completed EUR captures of 5, 5.004, 10 and 20
\* for each payee, and the replies that differ from GoodBody(5, "M1") in
\* the capture status, the currency or the amount
CaptureBodies ==
    { GoodBody(v, p) : v \in {JsNum(5000), JsNum(5004), JsNum(10000), JsNum(20000)},
                       p \in {"", "M1", "M2"} }
    \cup { [GoodBody(JsNum(5000), "M1") EXCEPT !.capStatus = st[1], !.orderStatus = st[2]] :
             st \in { << "PENDING", "COMPLETED" >>, << "", "COMPLETED" >>,
                      << "", "APPROVED" >> } }
    \cup { [GoodBody(JsNum(5000), "M1") EXCEPT !.currency = cur] : cur \in {"USD", ""} }
    \cup { GoodBody(v, "M1") : v \in {JsNum(7000), JsNum(0), JsUndefined} }
    \cup { EmptyBody }

\* bodies of a reply that is not ok: an error document without the order,
\* or one that repeats the order as it stands
ErrorBodies == { EmptyBody, GoodBody(JsNum(5000), "M1") }

\* the bodies explored while several capture requests are in flight
RaceBodies ==
    ErrorBodies \cup
    { GoodBody(JsNum(20000), ""), GoodBody(JsNum(5000), "M2"),
      [GoodBody(JsNum(5000), "M1") EXCEPT !.capStatus = "PENDING"] }

IdleCall == [pc |-> "idle", order |-> 0, email |-> << >>, ok |-> FALSE, message |-> ""]

NoResponse ==
    [route |-> "none", http |-> 0, error |-> "", contacted |-> FALSE,
     order |-> 0, input |-> JsUndefined,
     sent |-> JsNull, sentCurrency |-> "", body |-> EmptyBody, plan |-> "",
     tokensAdded |-> 0, totalTokens |-> 0, token |-> [userId |-> "", email |-> << >>, plan |-> ""]]

InitialUsers ==
    << [id |-> "u1", name |-> << Ch.a >>, email |-> << Ch.a >>, passwordHash |-> "p",
        plan |-> "free", tokens |-> JsNum(3)],
       [id |-> "u2", name |-> << Ch.b >>, email |-> << Ch.B >>, passwordHash |-> "p",
        plan |-> "premium", tokens |-> JsUndefined] >>

PayIdle ==
    /\ config = [paypal |-> TRUE, merchantId |-> "", jwtSecret |-> TRUE]
    /\ users = InitialUsers
    /\ orders = [o \in OrderIds |-> "NONE"]
    /\ capCalls = [c \in CallIds |-> IdleCall]
    /\ payState = [o \in OrderIds |-> "NONE"]
    /\ credits = [o \in OrderIds |-> 0]
    /\ lastPay = NoResponse
    /\ ledger = [granted |-> 0, raced |-> FALSE]

PayInit ==
    /\ config \in [paypal : BOOLEAN, merchantId : {"", "M1"}, jwtSecret : BOOLEAN]
    /\ users = InitialUsers
    /\ orders = [o \in OrderIds |-> "NONE"]
    /\ capCalls = [c \in CallIds |-> IdleCall]
    /\ payState = [o \in OrderIds |-> "NONE"]
    /\ credits = [o \in OrderIds |-> 0]
    /\ lastPay = NoResponse
    /\ ledger = [granted |-> 0, raced |-> FALSE]

\* the race specification runs with PayPal and the JWT secret configured
PayRaceInit ==
    /\ PayInit
    /\ config.paypal
    /\ config.jwtSecret

\* POST /api/payments/paypal/create-order: the whole handler.  tokenOk is
\* the outcome of getPayPalAccessToken's fetch, oracleRes the order-create
\* reply: "ok", "fail" (not ok) or "noid" (ok, without an id).
CreateOrder(input, tokenOk, oracleRes) ==
    LET amount == resolveAllowedAmount(normalizeAmountValue(input))
        resp   == [NoResponse EXCEPT !.route = "create", !.input = input]
        token  == [resp EXCEPT !.contacted = TRUE]
        asked  == [token EXCEPT !.sent = amount, !.sentCurrency = "EUR"]
        free   == { o \in OrderIds : orders[o] = "NONE" }
    IN  /\ oracleRes = "ok" => free # {}
        /\ IF Falsy(amount)
           THEN /\ lastPay' = [resp EXCEPT !.http = 400, !.error = "Unsupported amount."]
                /\ UNCHANGED << orders, payState >>
           ELSE IF ~config.paypal
           THEN /\ lastPay' = [resp EXCEPT !.http = 500,
                                  !.error = "PayPal credentials are not configured."]
                /\ UNCHANGED << orders, payState >>
           ELSE IF ~tokenOk
           THEN /\ lastPay' = [token EXCEPT !.http = 502,
                                  !.error = "Failed to fetch PayPal access token."]
                /\ UNCHANGED << orders, payState >>
           ELSE IF oracleRes = "fail"
           THEN /\ lastPay' = [asked EXCEPT !.http = 502, !.error = "PayPal request failed."]
                /\ UNCHANGED << orders, payState >>
           ELSE IF oracleRes = "noid"
           THEN /\ lastPay' = [asked EXCEPT !.http = 502, !.error = "PayPal order ID missing."]
                /\ UNCHANGED << orders, payState >>
           ELSE LET o == CHOOSE x \in free : \A y \in free : x <= y
                IN  /\ orders' = [orders EXCEPT ![o] = "CREATED"]
                    /\ payState' = [payState EXCEPT ![o] = "CREATED"]
                    /\ lastPay' = [asked EXCEPT !.http = 200, !.order = o]
        /\ UNCHANGED << config, users, capCalls, credits, ledger >>

\* The payment oracle's capture endpoint, as the call at webhook.js 225-228
\* sees it: an order is captured once; a capture of an order that does not
\* exist, is not approved (the oracle's own decision, `accept`) or is
\* already captured is answered with a reply that is not ok and that
\* carries the oracle's message.
OracleCapture(st, accept) ==
    IF st = "CREATED" /\ accept
    THEN [ok |-> TRUE, st |-> "CAPTURED", message |-> ""]
    ELSE [ok |-> FALSE, st |-> st,
          message |-> IF st = "NONE" THEN "RESOURCE_NOT_FOUND"
                      ELSE IF st = "CAPTURED" THEN "ORDER_ALREADY_CAPTURED"
                      ELSE "ORDER_NOT_APPROVED"]

\* POST /api/payments/paypal/capture-order up to the reply of the capture
\* call (lines 218-228): the orderId check, getPayPalAccessToken, and the
\* oracle's handling of the capture request.  The request takes the first
\* free slot.
CaptureRequest(c, oin, email, tokenOk, accept) ==
    LET resp == [NoResponse EXCEPT !.route = "capture"]
    IN  /\ capCalls[c].pc = "idle"
        /\ \A d \in CallIds : d < c => capCalls[d].pc # "idle"
        /\ IF oin = 0
           THEN /\ lastPay' = [resp EXCEPT !.http = 400, !.error = "Order ID is required."]
                /\ UNCHANGED << orders, capCalls, payState >>
           ELSE IF ~config.paypal
           THEN /\ lastPay' = [resp EXCEPT !.http = 500,
                                  !.error = "PayPal credentials are not configured."]
                /\ UNCHANGED << orders, capCalls, payState >>
           ELSE IF ~tokenOk
           THEN /\ lastPay' = [resp EXCEPT !.http = 502, !.contacted = TRUE,
                                  !.error = "Failed to fetch PayPal access token."]
                /\ UNCHANGED << orders, capCalls, payState >>
           ELSE LET r == OracleCapture(orders[oin], accept)
                IN  /\ orders' = [orders EXCEPT ![oin] = r.st]
                    /\ payState' = [payState EXCEPT ![oin] = IF r.ok THEN "CAPTURED" ELSE @]
                    /\ capCalls' = [capCalls EXCEPT ![c] =
                           [pc |-> "await", order |-> oin, email |-> email,
                            ok |-> r.ok, message |-> r.message]]
                    /\ UNCHANGED lastPay
        /\ UNCHANGED << config, users, credits, ledger >>

\* line 232: capture?.status || order?.status
CaptureStatus(body) ==
    IF body.capStatus # "" THEN body.capStatus ELSE body.orderStatus

\* the amount gate without the currency comparison
AmountGateFails_anyCurrency(value, currency) == Falsy(value)

\* line 240: !value || !currency || currency !== "EUR"
AmountGateFails(value, currency) ==
    Falsy(value) \/ currency = "" \/ currency # "EUR"

\* lines 249-254: the payee check, made only when a merchant id is configured
PayeeMismatch(merchantId, payee) ==
    /\ merchantId # ""
    /\ payee # ""
    /\ payee # merchantId

\* capture-order from the reply of the capture call to the response (lines
\* 225-269): one synchronous run.  http is the status sent, users the
\* content of users.json afterwards, wrote whether writeUsers ran, gate
\* whether a check of the handler refused the captured order.
CaptureOutcome(us, cfg, email, ok, message, body) ==
    LET r == paypalRequest(ok, message, body)
        none == [http |-> 0, error |-> "", users |-> us, wrote |-> FALSE, gate |-> FALSE,
                 plan |-> "", tokensAdded |-> 0, totalTokens |-> 0,
                 token |-> NoResponse.token]
    IN  IF r.threw THEN [none EXCEPT !.http = r.status, !.error = r.message]
        ELSE
        LET status   == CaptureStatus(r.data)
            value    == normalizeAmountValue(r.data.value)
            currency == r.data.currency
        IN  IF status # "COMPLETED"
            THEN [none EXCEPT !.http = 400, !.gate = TRUE,
                              !.error = "PayPal order not completed."]
            ELSE IF AmountGateFails(value, currency)
            THEN [none EXCEPT !.http = 400, !.gate = TRUE,
                              !.error = "Invalid PayPal capture amount."]
            ELSE
            LET allowedAmount == resolveAllowedAmount(value)
            IN  IF Falsy(allowedAmount)
                THEN [none EXCEPT !.http = 400, !.gate = TRUE,
                                  !.error = "Unsupported capture amount."]
                ELSE IF PayeeMismatch(cfg.merchantId, r.data.payee)
                THEN [none EXCEPT !.http = 400, !.gate = TRUE,
                                  !.error = "Payee mismatch for PayPal capture."]
                ELSE
                LET result == creditTokensForUser(us, email, allowedAmount)
                IN  IF result.status # 0
                    THEN [none EXCEPT !.http = result.status, !.gate = TRUE,
                                      !.error = result.error]
                    ELSE
                    LET user  == result.users[result.idx]
                        token == signUserToken(user, cfg.jwtSecret)
                    IN  IF token.threw
                        THEN [none EXCEPT !.http = token.status, !.error = token.error,
                                          !.users = result.users, !.wrote = TRUE]
                        ELSE [http |-> 200, error |-> "", users |-> result.users,
                              wrote |-> TRUE, gate |-> FALSE, plan |-> user.plan,
                              tokensAdded |-> result.tokens,
                              totalTokens |-> user.tokens.v,
                              token |-> token.payload]

\* another capture request for the same user and another order is suspended
\* at the oracle, its order captured, while call c runs
OverlapsCapture(c) ==
    \E d \in CallIds :
        /\ d # c
        /\ capCalls[d].pc = "await"
        /\ capCalls[d].ok
        /\ capCalls[d].order # capCalls[c].order
        /\ normalizeEmail(capCalls[d].email) = normalizeEmail(capCalls[c].email)

\* capture-order that credits a copy of users.json kept from start-up
CaptureContinue_cachedUsers(c, body) ==
    LET call == capCalls[c]
        out  == CaptureOutcome(InitialUsers, config, call.email, call.ok, call.message, body)
    IN  /\ call.pc = "await"
        /\ call.ok \/ body \in ErrorBodies
        /\ users' = out.users
        /\ capCalls' = [capCalls EXCEPT ![c] = IdleCall]
        /\ payState' = [payState EXCEPT ![call.order] =
                           IF out.wrote THEN "CREDITED"
                           ELSE IF out.gate THEN "REJECTED" ELSE @]
        /\ credits' = [credits EXCEPT ![call.order] = IF out.wrote THEN @ + 1 ELSE @]
        /\ lastPay' = [NoResponse EXCEPT !.route = "capture", !.http = out.http,
                          !.error = out.error, !.contacted = TRUE, !.body = body,
                          !.plan = out.plan, !.tokensAdded = out.tokensAdded,
                          !.totalTokens = out.totalTokens, !.token = out.token]
        /\ ledger' = [granted |-> ledger.granted + (IF out.http = 200 THEN out.tokensAdded ELSE 0),
                      raced   |-> ledger.raced \/ (out.http = 200 /\ OverlapsCapture(c))]
        /\ UNCHANGED << config, orders >>

\* capture-order from the reply of the capture call to the response: the
\* synchronous run of CaptureOutcome on users.json as it is now
CaptureContinue(c, body) ==
    LET call == capCalls[c]
        out  == CaptureOutcome(users, config, call.email, call.ok, call.message, body)
    IN  /\ call.pc = "await"
        /\ call.ok \/ body \in ErrorBodies
        /\ users' = out.users
        /\ capCalls' = [capCalls EXCEPT ![c] = IdleCall]
        /\ payState' = [payState EXCEPT ![call.order] =
                           IF out.wrote THEN "CREDITED"
                           ELSE IF out.gate THEN "REJECTED" ELSE @]
        /\ credits' = [credits EXCEPT ![call.order] = IF out.wrote THEN @ + 1 ELSE @]
        /\ lastPay' = [NoResponse EXCEPT !.route = "capture", !.http = out.http,
                          !.error = out.error, !.contacted = TRUE, !.body = body,
                          !.plan = out.plan, !.tokensAdded = out.tokensAdded,
                          !.totalTokens = out.totalTokens, !.token = out.token]
        /\ ledger' = [granted |-> ledger.granted + (IF out.http = 200 THEN out.tokensAdded ELSE 0),
                      raced   |-> ledger.raced \/ (out.http = 200 /\ OverlapsCapture(c))]
        /\ UNCHANGED << config, orders >>

(***************************************************************************)
(* City resolver / generator.                                              *)
(***************************************************************************)
\* normalizeName: "" for a missing value, else lowercase, NFD, marks removed
normalizeName(value) ==
    IF value = << >> THEN << >>
    ELSE StripMarks(NormalizeNFD(ToLowerCase(value)))

(***************************************************************************)
(* String.prototype.localeCompare with the default (root / English)        *)
(* collation: the strings are compared by their base letters first, then   *)
(* by their accents, then by their case.  A space sorts before every       *)
(* letter; l with stroke is a letter of its own between l and m; a         *)
(* combining mark has no base letter.                                      *)
(***************************************************************************)
PrimaryWeight(c) ==
    IF c = Ch.sp THEN 1
    ELSE IF c \in {Ch.a, Ch.A, Ch.aacute, Ch.Aacute} THEN 2
    ELSE IF c \in {Ch.b, Ch.B} THEN 3
    ELSE IF c = Ch.l THEN 4
    ELSE IF c \in {Ch.lstroke, Ch.Lstroke} THEN 5
    ELSE IF c = Ch.m THEN 6
    ELSE 0

SecondaryWeight(c) ==
    IF c \in {Ch.aacute, Ch.Aacute, Ch.acute} THEN 1 ELSE 0

TertiaryWeight(c) ==
    IF c \in {Ch.A, Ch.B, Ch.Aacute, Ch.Lstroke} THEN 1 ELSE 0

IsPositive(n) == n > 0

PrimaryKey(s) == SelectSeq([i \in 1..Len(s) |-> PrimaryWeight(s[i])], IsPositive)

SecondaryKey(s) == [i \in 1..Len(s) |-> SecondaryWeight(s[i])]

TertiaryKey(s) == [i \in 1..Len(s) |-> TertiaryWeight(s[i])]

\* lexicographic comparison of two weight sequences: -1, 0 or 1
RECURSIVE CompareKeys(_, _)
CompareKeys(a, b) ==
    IF a = << >> /\ b = << >> THEN 0
    ELSE IF a = << >> THEN -1
    ELSE IF b = << >> THEN 1
    ELSE IF Head(a) < Head(b) THEN -1
    ELSE IF Head(a) > Head(b) THEN 1
    ELSE CompareKeys(Tail(a), Tail(b))

localeCompare(a, b) ==
    LET p == CompareKeys(PrimaryKey(a), PrimaryKey(b))
        q == CompareKeys(SecondaryKey(a), SecondaryKey(b))
    IN  IF p # 0 THEN p
        ELSE IF q # 0 THEN q
        ELSE CompareKeys(TertiaryKey(a), TertiaryKey(b))

\* the comparator of line 295
CompareCities(x, y) == localeCompare(x.name, y.name)

\* Array.prototype.sort with that comparator (a stable sort): x goes after
\* the entries that do not compare greater than it
RECURSIVE InsertSorted(_, _)
InsertSorted(sorted, x) ==
    IF sorted = << >> THEN << x >>
    ELSE IF CompareCities(x, Head(sorted)) < 0 THEN << x >> \o sorted
    ELSE << Head(sorted) >> \o InsertSorted(Tail(sorted), x)

RECURSIVE SortCities(_)
SortCities(cs) ==
    IF cs = << >> THEN << >>
    ELSE InsertSorted(SortCities(SubSeq(cs, 1, Len(cs) - 1)), cs[Len(cs)])

\* parsed.cities.find that compares the stored name as it is
FirstIndexByName_raw(cs, normalizedCity) ==
    LET S == { i \in 1..Len(cs) : cs[i].name = normalizedCity }
    IN  IF S = {} THEN 0 ELSE CHOOSE i \in S : \A j \in S : i <= j

\* parsed.cities.find(...): index of the first match, 0 when there is none
FirstIndexByName(cs, normalizedCity) ==
    LET S == { i \in 1..Len(cs) : normalizeName(cs[i].name) = normalizedCity }
    IN  IF S = {} THEN 0 ELSE CHOOSE i \in S : \A j \in S : i <= j

\* a rename that keeps the requested name only when the oracle gave the same
AdoptName_swapped(oracleName, trimmedCity) ==
    IF normalizeName(oracleName) # normalizeName(trimmedCity)
    THEN oracleName ELSE trimmedCity

\* lines 290-292 left out: the oracle's name is stored as it came
AdoptName_keep(oracleName, trimmedCity) == oracleName

\* lines 290-292: the requested name replaces a name that normalizes differently
AdoptName(oracleName, trimmedCity) ==
    IF normalizeName(oracleName) # normalizeName(trimmedCity)
    THEN trimmedCity ELSE oracleName

\* push without the sort
InsertCity_noSort(cs, cityJSON) == Append(cs, cityJSON)

\* lines 294-295: push, then sort
InsertCity(cs, cityJSON) == SortCities(Append(cs, cityJSON))

\* the write that appends to the file as it is at the time of the write
PersistedCities_append(parsed, onDisk, cityJSON) == InsertCity(onDisk, cityJSON)

\* lines 294-297: what is written is `parsed`, the content read at line
\* 219 with the new city, whatever the file (onDisk) holds by then
PersistedCities(parsed, onDisk, cityJSON) == InsertCity(parsed, cityJSON)

GenIds == 1..MaxGen

\* req.body.city: "m", "L-stroke", " a", "b", " " and ""
CityInputs == { << Ch.m >>, << Ch.Lstroke >>, << Ch.sp, Ch.a >>, << Ch.b >>,
                << Ch.sp >>, << >> }

\* the generation oracle's output: text that is not JSON, or a document
\* with the name "A-acute" or without a name
OracleOutputs ==
    { [json |-> FALSE, name |-> << >>] } \cup
    { [json |-> TRUE, name |-> n] : n \in { << Ch.Aacute >>, << >> } }

IdleGen == [pc |-> "idle", route |-> "none", plan |-> "", city |-> << >>, cities |-> << >>]

\* no reply of the generation oracle
NoOracleOutput == [json |-> FALSE, name |-> << Ch.sp >>]

\* the last response of a city route; out (the oracle's reply the call got)
\* and dropped (the names its write removed from the file) are history
NoGenResult ==
    [route |-> "none", plan |-> "", http |-> 0, error |-> "", created |-> FALSE,
     req |-> << >>, city |-> << >>, oracleCalls |-> 0,
     out |-> NoOracleOutput, dropped |-> {}]

\* the message of the SyntaxError JSON.parse throws on the oracle's text
\* (line 283), as V8 words it
JsonParseMessage == "Unexpected token 'H', \"Here is th\"... is not valid JSON"

\* the message of the TypeError normalizeName throws on a value that is
\* not a string (line 58)
NotAStringMessage == "value.toLowerCase is not a function"

CityIdle ==
    /\ country = [name |-> Str(<< "P", "o", "l", "a", "n", "d" >>),
                  cities |-> << [name |-> << Ch.B >>] >>]
    /\ genCalls = [g \in GenIds |-> IdleGen]
    /\ lastGen = NoGenResult
    /\ raced = {}

CityInit == CityIdle

\* POST /api/countries/:file/cities up to the generation oracle's reply: the
\* entitlement gate and the city check of the route (lines 684-695), then
\* generateCityInFile's read of the country file, its trim and its lookup
\* (lines 219-236).  The call takes the first free slot.
GenerateRequest(g, plan, city) ==
    LET trimmedCity == Trim(city)
        cities == country.cities
        idx == FirstIndexByName(cities, normalizeName(trimmedCity))
        res == [NoGenResult EXCEPT !.route = "file", !.plan = plan, !.req = trimmedCity]
    IN  /\ genCalls[g].pc = "idle"
        /\ \A h \in GenIds : h < g => genCalls[h].pc # "idle"
        /\ IF ~planAllows(plan, << "basic", "premium" >>)
           THEN /\ lastGen' = [res EXCEPT !.http = 403,
                                          !.error = "Your plan does not allow adding new cities."]
                /\ UNCHANGED genCalls
           ELSE IF city = << >> \/ trimmedCity = << >>
           THEN /\ lastGen' = [res EXCEPT !.http = 400, !.error = "City is required."]
                /\ UNCHANGED genCalls
           ELSE IF idx # 0
           THEN /\ lastGen' = [res EXCEPT !.http = 200, !.city = cities[idx].name]
                /\ UNCHANGED genCalls
           ELSE /\ genCalls' = [genCalls EXCEPT ![g] =
                       [pc |-> "await", route |-> "file", plan |-> plan,
                        city |-> trimmedCity, cities |-> cities]]
                /\ UNCHANGED lastGen
        /\ UNCHANGED << country, raced >>

\* a validation that only asks the oracle's text to parse
InvalidGeneration_parseOnly(out) == ~out.json

\* lines 282-289: JSON.parse throws on text that is not JSON, and a document
\* without a (non-empty) name is refused
InvalidGeneration(out) == ~out.json \/ out.name = << >>

\* lines 698-702 and 749-753: the routes answer err.message when the error
\* has one: the SyntaxError's text, or the text of the error of line 286
GenerationError(out) ==
    IF ~out.json THEN JsonParseMessage ELSE "Invalid AI response."

\* the names of the file as it is on disk that the written list lacks
DroppedNames(onDisk, persisted) ==
    { onDisk[i].name : i \in 1..Len(onDisk) } \ { persisted[i].name : i \in 1..Len(persisted) }

\* a generator that looks the city up again in the file before it writes
GenerateContinue_recheck(g, out) ==
    LET call == genCalls[g]
        res  == [NoGenResult EXCEPT !.route = call.route, !.plan = call.plan,
                                    !.req = call.city, !.oracleCalls = 1, !.out = out]
        idx  == FirstIndexByName(country.cities, normalizeName(call.city))
    IN  /\ call.pc = "await"
        /\ genCalls' = [genCalls EXCEPT ![g] = IdleGen]
        /\ IF InvalidGeneration(out)
           THEN /\ lastGen' = [res EXCEPT !.http = 500, !.error = GenerationError(out)]
                /\ UNCHANGED << country, raced >>
           ELSE IF idx # 0
           THEN /\ lastGen' = [res EXCEPT !.http = 200, !.city = country.cities[idx].name]
                /\ UNCHANGED << country, raced >>
           ELSE LET cityJSON == [name |-> AdoptName(out.name, call.city)]
                    written == PersistedCities(call.cities, country.cities, cityJSON)
                IN  /\ country' = [country EXCEPT !.cities = written]
                    /\ lastGen' = [res EXCEPT !.http = 200, !.created = TRUE,
                                              !.city = cityJSON.name,
                                              !.dropped = DroppedNames(country.cities, written)]
                    /\ UNCHANGED raced

\* generateCityInFile from the oracle's reply to the return (lines 282-299).
\* raced records the name when the file already holds the city at the time
\* of the write: another call created it after this call's read.
GenerateContinue(g, out) ==
    LET call == genCalls[g]
        res  == [NoGenResult EXCEPT !.route = call.route, !.plan = call.plan,
                                    !.req = call.city, !.oracleCalls = 1, !.out = out]
        held == FirstIndexByName(country.cities, normalizeName(call.city)) # 0
    IN  /\ call.pc = "await"
        /\ genCalls' = [genCalls EXCEPT ![g] = IdleGen]
        /\ IF InvalidGeneration(out)
           THEN /\ lastGen' = [res EXCEPT !.http = 500, !.error = GenerationError(out)]
                /\ UNCHANGED << country, raced >>
           ELSE LET cityJSON == [name |-> AdoptName(out.name, call.city)]
                    written == PersistedCities(call.cities, country.cities, cityJSON)
                IN  /\ country' = [country EXCEPT !.cities = written]
                    /\ lastGen' = [res EXCEPT !.http = 200, !.created = TRUE,
                                              !.city = cityJSON.name,
                                              !.dropped = DroppedNames(country.cities, written)]
                    /\ raced' = IF held THEN raced \cup {normalizeName(call.city)}
                                ELSE raced

(***************************************************************************)
(* Country files (part_001, resolveCountryFile and the routes that take a  *)
(* file name from the request).  A name or path is a sequence of           *)
(* one-character strings, so endsWith, path.resolve and startsWith are     *)
(* computed.  "/d/c" stands for <dir>/data/countries.                      *)
(***************************************************************************)
COUNTRIES_DIR == << "/", "d", "/", "c" >>

JsonSuffix == << ".", "j", "s", "o", "n" >>

\* String.prototype.endsWith
EndsWith(str, suffix) ==
    /\ Len(str) >= Len(suffix)
    /\ SubSeq(str, Len(str) - Len(suffix) + 1, Len(str)) = suffix

\* String.prototype.startsWith
StartsWith(str, prefix) ==
    /\ Len(str) >= Len(prefix)
    /\ SubSeq(str, 1, Len(prefix)) = prefix

\* the segments of a path between its separators
RECURSIVE SplitPath(_, _)
SplitPath(str, cur) ==
    IF str = << >> THEN << cur >>
    ELSE IF Head(str) = "/" THEN << cur >> \o SplitPath(Tail(str), << >>)
    ELSE SplitPath(Tail(str), Append(cur, Head(str)))

\* path.resolve's normalization of an absolute path: "" and "." are
\* dropped, ".." removes the segment before it (none above the root)
RECURSIVE NormalizeSegments(_, _)
NormalizeSegments(segs, acc) ==
    IF segs = << >> THEN acc
    ELSE LET seg == Head(segs)
         IN  IF seg = << >> \/ seg = << "." >>
             THEN NormalizeSegments(Tail(segs), acc)
             ELSE IF seg = << ".", "." >>
             THEN NormalizeSegments(Tail(segs),
                      IF acc = << >> THEN acc ELSE SubSeq(acc, 1, Len(acc) - 1))
             ELSE NormalizeSegments(Tail(segs), Append(acc, seg))

RECURSIVE JoinPath(_)
JoinPath(segs) ==
    IF segs = << >> THEN << >>
    ELSE << "/" >> \o Head(segs) \o JoinPath(Tail(segs))

\* path.resolve(base, name) on POSIX: an absolute name stands alone
PathResolve(base, name) ==
    LET full == IF StartsWith(name, << "/" >>) THEN name ELSE base \o << "/" >> \o name
        segs == NormalizeSegments(SplitPath(full, << >>), << >>)
    IN  IF segs = << >> THEN << "/" >> ELSE JoinPath(segs)

\* resolveCountryFile whose prefix test leaves out the path separator
resolveCountryFile_noSep(fileName) ==
    IF fileName = << >> \/ ~EndsWith(fileName, JsonSuffix)
    THEN [error |-> "Invalid file name.", path |-> << >>]
    ELSE LET resolvedPath == PathResolve(COUNTRIES_DIR, fileName)
         IN  IF ~StartsWith(resolvedPath, COUNTRIES_DIR)
             THEN [error |-> "Invalid file path.", path |-> << >>]
             ELSE [error |-> "", path |-> resolvedPath]

resolveCountryFile(fileName) ==
    IF fileName = << >> \/ ~EndsWith(fileName, JsonSuffix)
    THEN [error |-> "Invalid file name.", path |-> << >>]
    ELSE LET resolvedPath == PathResolve(COUNTRIES_DIR, fileName)
         IN  IF ~StartsWith(resolvedPath, COUNTRIES_DIR \o << "/" >>)
             THEN [error |-> "Invalid file path.", path |-> << >>]
             ELSE [error |-> "", path |-> resolvedPath]

\* the characters resource names are made of
NameChars == { ".", "/", "c", "d" }

RECURSIVE StemsUpTo(_)
StemsUpTo(n) ==
    IF n = 0 THEN { << >> }
    ELSE LET shorter == StemsUpTo(n - 1)
         IN  shorter \cup { Append(st, ch) : st \in shorter, ch \in NameChars }

\* req.params.file / req.query.file: every stem, with and without ".json";
\* the empty name stands for a missing query parameter
FileNames ==
    LET stems == StemsUpTo(MaxStem)
    IN  stems \cup { st \o JsonSuffix : st \in stems }

NoFileResult == [called |-> FALSE, route |-> "none", http |-> 0, path |-> << >>]

FileIdle ==
    /\ fileArg = << >>
    /\ fileRes = NoFileResult

FileInit ==
    /\ fileArg \in FileNames
    /\ fileRes = NoFileResult

\* GET /api/countries/:file: 400 on a refused name, else the read of the
\* resolved path, which exists or not
GetCountryFile(exists) ==
    LET resolved == resolveCountryFile(fileArg)
    IN  /\ ~fileRes.called
        /\ fileRes' = IF resolved.error # ""
                      THEN [called |-> TRUE, route |-> "countries", http |-> 400,
                            path |-> << >>]
                      ELSE [called |-> TRUE, route |-> "countries",
                            http |-> IF exists THEN 200 ELSE 404,
                            path |-> resolved.path]
        /\ UNCHANGED fileArg

\* GET /api/geo/nearest?file=...: the coordinates are checked first, then
\* the name; then the file is read: a nearest city is found (200), no city
\* can be located (404), or the file cannot be read or parsed (500)
GeoNearest(coordsOk, outcome) ==
    LET resolved == resolveCountryFile(fileArg)
    IN  /\ ~fileRes.called
        /\ fileRes' = IF ~coordsOk \/ resolved.error # ""
                      THEN [called |-> TRUE, route |-> "nearest", http |-> 400,
                            path |-> << >>]
                      ELSE [called |-> TRUE, route |-> "nearest",
                            http |-> IF outcome = "found" THEN 200
                                     ELSE IF outcome = "none" THEN 404 ELSE 500,
                            path |-> resolved.path]
        /\ UNCHANGED fileArg

(***************************************************************************)
(* Signup, confirmation and login (part_001, lines 811-1019).  A request   *)
(* is cut at the instants where it reads or writes a file; what runs in    *)
(* between touches only the request's own data.  File reads and writes are *)
(* atomic.  The confirmation token, crypto.randomBytes(32), is a fresh     *)
(* number; the id `u_${Date.now()}` is derived from it.                    *)
(***************************************************************************)
\* replace(/\s+/g, " "): every run of spaces becomes one space
RECURSIVE CollapseSpaces(_)
CollapseSpaces(str) ==
    IF str = << >> THEN << >>
    ELSE IF Head(str) = Ch.sp /\ Len(str) > 1 /\ str[2] = Ch.sp
    THEN CollapseSpaces(Tail(str))
    ELSE << Head(str) >> \o CollapseSpaces(Tail(str))

normalizeUserName(value) == CollapseSpaces(normalizeName(Trim(value)))

\* users.find / pending.find by normalized display name
FirstIndexByUserName(records, normalizedName) ==
    LET S == { i \in 1..Len(records) : normalizeUserName(records[i].name) = normalizedName }
    IN  IF S = {} THEN 0 ELSE CHOOSE i \in S : \A j \in S : i <= j

\* pending.findIndex((u) => u.token === token), 0 for -1
FirstIndexByToken(records, token) ==
    LET S == { i \in 1..Len(records) : records[i].token = token }
    IN  IF S = {} THEN 0 ELSE CHOOSE i \in S : \A j \in S : i <= j

\* the pending check that looks at the e-mail only
PendingConflict_emailOnly(records, normalizedEmail, normalizedName) ==
    FirstIndexByEmail(records, normalizedEmail) # 0

\* lines 879-886: the e-mail or the name is already pending
PendingConflict(records, normalizedEmail, normalizedName) ==
    \/ FirstIndexByEmail(records, normalizedEmail) # 0
    \/ FirstIndexByUserName(records, normalizedName) # 0

\* lines 869-876: the e-mail or the name belongs to a confirmed user
UsersConflict(records, normalizedEmail, normalizedName) ==
    \/ FirstIndexByEmail(records, normalizedEmail) # 0
    \/ FirstIndexByUserName(records, normalizedName) # 0

\* a splice that leaves the entry in place
SpliceAt_keep(records, idx) == records

\* pending.splice(idx, 1)
SpliceAt(records, idx) ==
    SubSeq(records, 1, idx - 1) \o SubSeq(records, idx + 1, Len(records))

AuthIds  == 1..MaxAuth
TokenIds == 1..MaxTokens

\* req.body.name of signup: "l", "m", "A-acute" (normalizes to "a"), a lone
\* combining accent (normalizes to ""), accent-space-"l" (normalizes to
\* " l"), and a missing name
SignupNames == { << Ch.l >>, << Ch.m >>, << Ch.Aacute >>, << Ch.acute >>,
                 << Ch.acute, Ch.sp, Ch.l >>, << >> }

\* req.body.email of signup: "l", "m", " B" (user u2 once normalized), missing
SignupEmails == { << Ch.l >>, << Ch.m >>, << Ch.sp, Ch.B >>, << >> }

\* the names and e-mails of the signups explored in flight together
AuthRaceNames  == { << Ch.l >>, << Ch.m >> }
AuthRaceEmails == { << Ch.l >>, << Ch.m >> }

\* username / email of login, and the password ("" is a missing one)
LoginIdentifiers == { << Ch.a >>, << Ch.l >>, << >> }
LoginPasswords == { "p", "q", "" }

NoEntry == [id |-> "", name |-> << >>, email |-> << >>, passwordHash |-> "",
            plan |-> "", token |-> 0]

IdleAuth == [pc |-> "idle", entry |-> NoEntry, list |-> << >>]

NoAuthResponse == [route |-> "none", http |-> 0, token |-> 0,
                   name |-> << >>, email |-> << >>, password |-> FALSE]

AuthIdle ==
    /\ pending = << >>
    /\ authCalls = [a \in AuthIds |-> IdleAuth]
    /\ lastAuth = NoAuthResponse
    /\ audit = [next |-> 1, clock |-> 0, mailed |-> {}, found |-> [t \in TokenIds |-> 0],
                confirms |-> [t \in TokenIds |-> 0]]

AuthInit == AuthIdle

\* a counter of the history that stops at 2
UpTo2(n) == IF n >= 2 THEN 2 ELSE n + 1

\* POST /api/auth/signup, lines 857-876: the validation, then the read of
\* users.json and the checks against it.  The request takes the first free
\* slot.
SignupRequest(a, name, email, password) ==
    LET normalizedName  == normalizeUserName(name)
        normalizedEmail == normalizeEmail(email)
        resp == [NoAuthResponse EXCEPT !.route = "signup", !.name = name,
                                       !.email = email, !.password = password]
    IN  /\ authCalls[a].pc = "idle"
        /\ \A b \in AuthIds : b < a => authCalls[b].pc # "idle"
        /\ IF name = << >> \/ email = << >> \/ ~password
           THEN /\ lastAuth' = [resp EXCEPT !.http = 400]
                /\ UNCHANGED authCalls
           ELSE IF normalizedName = << >>
           THEN /\ lastAuth' = [resp EXCEPT !.http = 400]
                /\ UNCHANGED authCalls
           ELSE IF UsersConflict(users, normalizedEmail, normalizedName)
           THEN /\ lastAuth' = [resp EXCEPT !.http = 409]
                /\ UNCHANGED authCalls
           ELSE /\ authCalls' = [authCalls EXCEPT ![a] =
                       [pc |-> "sPending",
                        entry |-> [NoEntry EXCEPT !.name = normalizedName,
                                                  !.email = normalizedEmail],
                        list |-> << >>]]
                /\ UNCHANGED lastAuth
        /\ UNCHANGED << users, pending, audit >>

\* signup, lines 878-900: the read of pending_users.json, the checks against
\* it, the new entry with its token and its id `u_${Date.now()}` (line 891),
\* pushed onto the list that was read.  tick tells whether the clock has
\* moved to the next millisecond since Date.now() was read last.
SignupReadPending(a, tick) ==
    LET call == authCalls[a]
        t    == audit.next
        now  == IF tick THEN audit.clock + 1 ELSE audit.clock
        entry == [id |-> "u_" \o ToString(now), name |-> call.entry.name,
                  email |-> call.entry.email, passwordHash |-> "p",
                  plan |-> "free", token |-> t]
    IN  /\ call.pc = "sPending"
        /\ IF PendingConflict(pending, call.entry.email, call.entry.name)
           THEN /\ lastAuth' = [NoAuthResponse EXCEPT !.route = "signup", !.http = 409,
                                   !.name = call.entry.name, !.email = call.entry.email,
                                   !.password = TRUE]
                /\ authCalls' = [authCalls EXCEPT ![a] = IdleAuth]
                /\ UNCHANGED audit
           ELSE /\ t <= MaxTokens
                /\ authCalls' = [authCalls EXCEPT ![a] =
                       [pc |-> "sWrite", entry |-> entry, list |-> Append(pending, entry)]]
                /\ audit' = [audit EXCEPT !.next = t + 1, !.clock = now]
                /\ UNCHANGED lastAuth
        /\ UNCHANGED << users, pending >>

\* signup, lines 901-913: the write of the pending list, then the mail; when
\* the mail fails the entry is popped from the request's list (line 908)
SignupWrite(a, mailOk) ==
    LET call == authCalls[a]
    IN  /\ call.pc = "sWrite"
        /\ pending' = call.list
        /\ IF mailOk
           THEN /\ audit' = [audit EXCEPT !.mailed = @ \cup {call.entry.token}]
                /\ lastAuth' = [NoAuthResponse EXCEPT !.route = "signup", !.http = 200,
                                   !.token = call.entry.token]
                /\ authCalls' = [authCalls EXCEPT ![a] = IdleAuth]
           ELSE /\ authCalls' = [authCalls EXCEPT ![a] =
                       [call EXCEPT !.pc = "sPop",
                                    !.list = SubSeq(call.list, 1, Len(call.list) - 1)]]
                /\ UNCHANGED << audit, lastAuth >>
        /\ UNCHANGED users

\* a signup that answers 500 after a failed mail without the second write
SignupPop_noWrite(a) ==
    LET call == authCalls[a]
    IN  /\ call.pc = "sPop"
        /\ lastAuth' = [NoAuthResponse EXCEPT !.route = "signup", !.http = 500,
                           !.token = call.entry.token]
        /\ authCalls' = [authCalls EXCEPT ![a] = IdleAuth]
        /\ UNCHANGED << users, pending, audit >>

\* signup, lines 909-916: the second write after a failed mail, then 500
SignupPop(a) ==
    LET call == authCalls[a]
    IN  /\ call.pc = "sPop"
        /\ pending' = call.list
        /\ lastAuth' = [NoAuthResponse EXCEPT !.route = "signup", !.http = 500,
                           !.token = call.entry.token]
        /\ authCalls' = [authCalls EXCEPT ![a] = IdleAuth]
        /\ UNCHANGED << users, audit >>

\* GET /api/auth/confirm, lines 922-934: the token check, the read of
\* pending_users.json, the lookup and the splice.  token 0 is a missing one.
ConfirmRequest(a, token) ==
    LET idx  == FirstIndexByToken(pending, token)
        resp == [NoAuthResponse EXCEPT !.route = "confirm", !.token = token]
    IN  /\ authCalls[a].pc = "idle"
        /\ \A b \in AuthIds : b < a => authCalls[b].pc # "idle"
        /\ IF token = 0 \/ idx = 0
           THEN /\ lastAuth' = [resp EXCEPT !.http = 400]
                /\ UNCHANGED << authCalls, audit >>
           ELSE /\ authCalls' = [authCalls EXCEPT ![a] =
                       [pc |-> "cWrite", entry |-> pending[idx],
                        list |-> SpliceAt(pending, idx)]]
                /\ audit' = [audit EXCEPT !.found[token] = UpTo2(@)]
                /\ UNCHANGED lastAuth
        /\ UNCHANGED << users, pending >>

\* confirm, line 935: the write of the spliced list
ConfirmWritePending(a) ==
    LET call == authCalls[a]
    IN  /\ call.pc = "cWrite"
        /\ pending' = call.list
        /\ authCalls' = [authCalls EXCEPT ![a] = [call EXCEPT !.pc = "cUsers", !.list = << >>]]
        /\ UNCHANGED << users, lastAuth, audit >>

\* confirm, lines 953-970: jwt.sign and the redirect, 500 without a secret
ConfirmRespond(a) ==
    LET token == authCalls[a].entry.token
    IN  /\ authCalls' = [authCalls EXCEPT ![a] = IdleAuth]
        /\ IF config.jwtSecret
           THEN /\ lastAuth' = [NoAuthResponse EXCEPT !.route = "confirm", !.http = 302,
                                   !.token = token]
                /\ audit' = [audit EXCEPT !.confirms[token] = UpTo2(@)]
           ELSE /\ lastAuth' = [NoAuthResponse EXCEPT !.route = "confirm", !.http = 500,
                                   !.token = token]
                /\ UNCHANGED audit

\* confirm, lines 937-949: the read of users.json and the lookup by e-mail;
\* a user that exists is kept and the request goes on to respond
ConfirmReadUsers(a) ==
    LET call == authCalls[a]
        idx  == FirstIndexByEmail(users, normalizeEmail(call.entry.email))
        user == [id |-> call.entry.id, name |-> call.entry.name,
                 email |-> call.entry.email, passwordHash |-> call.entry.passwordHash,
                 plan |-> call.entry.plan, tokens |-> JsNum(0)]
    IN  /\ call.pc = "cUsers"
        /\ IF idx # 0
           THEN ConfirmRespond(a)
           ELSE /\ authCalls' = [authCalls EXCEPT ![a] =
                       [call EXCEPT !.pc = "cWriteUsers", !.list = Append(users, user)]]
                /\ UNCHANGED << lastAuth, audit >>
        /\ UNCHANGED << users, pending >>

\* confirm, line 950: the write of the users list, then the response; a
\* write that fails (written = FALSE) rejects and the catch of lines 968-971
\* answers 500
ConfirmWriteUsers(a, written) ==
    LET call == authCalls[a]
    IN  /\ call.pc = "cWriteUsers"
        /\ IF written
           THEN /\ users' = call.list
                /\ ConfirmRespond(a)
           ELSE /\ authCalls' = [authCalls EXCEPT ![a] = IdleAuth]
                /\ lastAuth' = [NoAuthResponse EXCEPT !.route = "confirm", !.http = 500,
                                   !.token = call.entry.token]
                /\ UNCHANGED << users, audit >>
        /\ UNCHANGED pending

\* POST /api/auth/login: the read of users.json, the lookup by name or
\* e-mail, bcrypt.compare and jwt.sign; without a secret jwt.sign throws
\* outside any try and no response is sent (http 0)
Login(identifier, password) ==
    LET idx == LET S == { i \in 1..Len(users) :
                            \/ normalizeUserName(users[i].name) = normalizeUserName(identifier)
                            \/ normalizeEmail(users[i].email) = normalizeEmail(identifier) }
               IN  IF S = {} THEN 0 ELSE CHOOSE i \in S : \A j \in S : i <= j
        resp == [NoAuthResponse EXCEPT !.route = "login", !.name = identifier,
                                       !.password = (password # "")]
    IN  /\ lastAuth' =
              IF identifier = << >> \/ password = "" THEN [resp EXCEPT !.http = 400]
              ELSE IF idx = 0 THEN [resp EXCEPT !.http = 401]
              ELSE IF users[idx].passwordHash # password THEN [resp EXCEPT !.http = 401]
              ELSE IF ~config.jwtSecret THEN resp
              ELSE [resp EXCEPT !.http = 200]
        /\ UNCHANGED << users, pending, authCalls, audit >>

(***************************************************************************)
(* Specifications.                                                         *)
(***************************************************************************)
(***************************************************************************)
(* Country lookup by name (part_001, COUNTRY_ALIASES, resolveCountryAlias  *)
(* and findCountryFileByName).  Country names are code point sequences,    *)
(* written with Str from their characters.                                 *)
(***************************************************************************)
\* .replace(/\s+/g, "")
RECURSIVE RemoveSpaces(_)
RemoveSpaces(str) ==
    IF str = << >> THEN << >>
    ELSE IF Head(str) = Ch.sp THEN RemoveSpaces(Tail(str))
    ELSE << Head(str) >> \o RemoveSpaces(Tail(str))

\* lines 64-66
normalizeKey(value) == RemoveSpaces(normalizeName(value))

\* lines 80-94: the alias table, a sequence of [key, name]
COUNTRY_ALIASES ==
    << [key  |-> Str(<< "b", "o", "s", "n", "i", "a", "a", "n", "d", "h", "e", "r", "z", "e", "g", "o", "v", "i", "n", "a" >>),
        name |-> Str(<< "B", "o", "s", "n", "i", "a", " ", "a", "n", "d", " ", "H", "e", "r", "z", "e", "g", "o", "w", "i", "n", "a" >>)],
       [key  |-> Str(<< "c", "o", "t", "e", "d", "i", "v", "o", "i", "r", "e" >>),
        name |-> Str(<< "C", "o", "t", "e", " ", "d", "'", "I", "v", "o", "i", "r", "e" >>)],
       [key  |-> Str(<< "c", "z", "e", "c", "h", "i", "a" >>),
        name |-> Str(<< "C", "z", "e", "c", "h", " ", "R", "e", "p", "u", "b", "l", "i", "c" >>)],
       [key  |-> Str(<< "h", "o", "l", "y", "s", "e", "e" >>),
        name |-> Str(<< "V", "a", "t", "i", "c", "a", "n", " ", "C", "i", "t", "y" >>)],
       [key  |-> Str(<< "m", "a", "c", "e", "d", "o", "n", "i", "a" >>),
        name |-> Str(<< "N", "o", "r", "t", "h", " ", "M", "a", "c", "e", "d", "o", "n", "i", "a" >>)],
       [key  |-> Str(<< "n", "o", "r", "t", "h", "m", "a", "c", "e", "d", "o", "n", "i", "a" >>),
        name |-> Str(<< "N", "o", "r", "t", "h", " ", "M", "a", "c", "e", "d", "o", "n", "i", "a" >>)],
       [key  |-> Str(<< "r", "e", "p", "u", "b", "l", "i", "c", "o", "f", "m", "o", "l", "d", "o", "v", "a" >>),
        name |-> Str(<< "M", "o", "l", "d", "o", "v", "a" >>)],
       [key  |-> Str(<< "r", "e", "p", "u", "b", "l", "i", "c", "o", "f", "t", "u", "r", "k", "e", "y" >>),
        name |-> Str(<< "T", "u", "r", "k", "e", "y", " ", "(", "E", "u", "r", "o", "p", "e", ")" >>)],
       [key  |-> Str(<< "r", "u", "s", "s", "i", "a", "n", "f", "e", "d", "e", "r", "a", "t", "i", "o", "n" >>),
        name |-> Str(<< "R", "u", "s", "s", "i", "a", " ", "(", "E", "u", "r", "o", "p", "e", ")" >>)],
       [key  |-> Str(<< "s", "l", "o", "v", "a", "k", "r", "e", "p", "u", "b", "l", "i", "c" >>),
        name |-> Str(<< "S", "l", "o", "v", "a", "k", "i", "a" >>)],
       [key  |-> Str(<< "s", "w", "i", "s", "s", "c", "o", "n", "f", "e", "d", "e", "r", "a", "t", "i", "o", "n" >>),
        name |-> Str(<< "S", "w", "i", "z", "e", "r", "l", "a", "n", "d" >>)],
       [key  |-> Str(<< "t", "u", "r", "k", "i", "y", "e" >>),
        name |-> Str(<< "T", "u", "r", "k", "e", "y", " ", "(", "E", "u", "r", "o", "p", "e", ")" >>)],
       [key  |-> Str(<< "u", "n", "i", "t", "e", "d", "k", "i", "n", "g", "d", "o", "m", "o", "f", "g", "r", "e", "a", "t", "b", "r", "i", "t", "a", "i", "n", "a", "n", "d", "n", "o", "r", "t", "h", "e", "r", "n", "i", "r", "e", "l", "a", "n", "d" >>),
        name |-> Str(<< "U", "n", "i", "t", "e", "d", " ", "K", "i", "n", "g", "d", "o", "m" >>)] >>

\* the members an object literal inherits whose name is a normalized key
\* (lowercase, without spaces)
AliasPrototypeKeys == { Str(<< "c", "o", "n", "s", "t", "r", "u", "c", "t", "o", "r" >>) }

\* COUNTRY_ALIASES[key]: an own entry, else an inherited member (a function
\* object), else undefined
AliasGet(key) ==
    IF \E i \in 1..Len(COUNTRY_ALIASES) : COUNTRY_ALIASES[i].key = key
    THEN [t |-> "string",
          v |-> COUNTRY_ALIASES[CHOOSE i \in 1..Len(COUNTRY_ALIASES) :
                                    COUNTRY_ALIASES[i].key = key].name]
    ELSE IF key \in AliasPrototypeKeys THEN [t |-> "object", v |-> << >>]
    ELSE [t |-> "undefined", v |-> << >>]

\* lines 96-99: COUNTRY_ALIASES[key] || input
resolveCountryAlias(input) ==
    LET got == AliasGet(normalizeKey(input))
    IN  IF got.t = "undefined" THEN [t |-> "string", v |-> input] ELSE got

NoMatch == [threw |-> FALSE, found |-> FALSE, file |-> << >>, country |-> << >>]

\* lines 185-206, one file of the scan: a name that does not end in .json
\* is skipped, as are a file that cannot be read or parsed (the catch of
\* line 203) and a record without a name
FileMatches(entry, normalizedTarget, targetKey) ==
    /\ EndsWith(entry.file, JsonSuffix)
    /\ entry.readable
    /\ entry.name # << >>
    /\ \/ normalizeName(entry.name) = normalizedTarget
       \/ /\ normalizeKey(entry.name) # << >>
          /\ normalizeKey(entry.name) = targetKey

\* lines 177-209; files is the directory in readdir order.  normalizeName of
\* an alias that is not a string throws (toLowerCase is not a function).
findCountryFileByName(files, countryName) ==
    IF countryName = << >> THEN NoMatch
    ELSE LET aliased == resolveCountryAlias(countryName)
         IN  IF aliased.t # "string" THEN [NoMatch EXCEPT !.threw = TRUE]
             ELSE LET normalizedTarget == normalizeName(aliased.v)
                      targetKey == normalizeKey(aliased.v)
                      S == { i \in 1..Len(files) :
                               FileMatches(files[i], normalizedTarget, targetKey) }
                  IN  IF S = {} THEN NoMatch
                      ELSE LET i == CHOOSE i \in S : \A j \in S : i <= j
                           IN  [NoMatch EXCEPT !.found = TRUE, !.file = files[i].file,
                                               !.country = files[i].name]

\* the files a directory is made of: two records of the Czech Republic (the
\* second found by its key only), Poland, a file that cannot be parsed, a
\* file that is not .json and a record without a name
FindFiles ==
    { [file |-> << "c", "z", ".", "j", "s", "o", "n" >>, readable |-> TRUE, name |-> Str(<< "C", "z", "e", "c", "h", " ", "R", "e", "p", "u", "b", "l", "i", "c" >>)],
      [file |-> << "c", "2", ".", "j", "s", "o", "n" >>, readable |-> TRUE, name |-> Str(<< "C", "z", "e", "c", "h", "R", "e", "p", "u", "b", "l", "i", "c" >>)],
      [file |-> << "p", "l", ".", "j", "s", "o", "n" >>, readable |-> TRUE, name |-> Str(<< "P", "o", "l", "a", "n", "d" >>)],
      [file |-> << "b", "a", "d", ".", "j", "s", "o", "n" >>, readable |-> FALSE, name |-> Str(<< "P", "o", "l", "a", "n", "d" >>)],
      [file |-> << "c", "z", ".", "t", "x", "t" >>, readable |-> TRUE, name |-> Str(<< "C", "z", "e", "c", "h", " ", "R", "e", "p", "u", "b", "l", "i", "c" >>)],
      [file |-> << "n", "o", ".", "j", "s", "o", "n" >>, readable |-> TRUE, name |-> << >>] }

FindDirs == UNION { [1..n -> FindFiles] : n \in 0..MaxFiles }

\* the country names asked for: none, an alias, an alias under an accent, a
\* name in another case, a name without and with other spaces, a country
\* without a file, and the name of an inherited member
FindInputs ==
    { << >>,
      Str(<< "C", "z", "e", "c", "h", "i", "a" >>),
      Str(<< "C", "z", "e", "c", "h", "i" >>) \o << Ch.Aacute >>,
      Str(<< "c", "z", "e", "c", "h", " ", "r", "e", "p", "u", "b", "l", "i", "c" >>),
      Str(<< "C", "Z", "E", "C", "H", "R", "E", "P", "U", "B", "L", "I", "C" >>),
      Str(<< "P", "o", "l", "a", "n", "d" >>),
      Str(<< "P", "o", " ", "l", "a", "n", "d" >>),
      Str(<< "M", "a", "r", "s" >>),
      Str(<< "C", "o", "n", "s", "t", "r", "u", "c", "t", "o", "r" >>) }

NoFindResult == [called |-> FALSE, result |-> NoMatch]

FindIdle ==
    /\ findArg = << >>
    /\ findDir = << >>
    /\ findRes = NoFindResult

FindInit ==
    /\ findArg \in FindInputs
    /\ findDir \in FindDirs
    /\ findRes = NoFindResult

\* one evaluation of findCountryFileByName(countryName)
CallFind ==
    /\ ~findRes.called
    /\ findRes' = [called |-> TRUE, result |-> findCountryFileByName(findDir, findArg)]
    /\ UNCHANGED << findArg, findDir >>

(***************************************************************************)
(* Reads of the JSON collections: readJsonFile of part_001 (users.json and *)
(* pending_users.json of the auth routes) and readUsers of                 *)
(* routes/webhook.js (users.json of the payment route).  The file is       *)
(* there with its content ("ok"), absent ("missing"), there but not        *)
(* readable ("unreadable", EACCES) or there with text that is not JSON     *)
(* ("unparsable").                                                         *)
(***************************************************************************)
ReadConds == {"ok", "missing", "unreadable", "unparsable"}

\* part_001 lines 101-109: ENOENT gives the fallback, any other error is
\* thrown again
readJsonFile(file, fallback) ==
    IF file.cond = "ok" THEN [threw |-> FALSE, value |-> file.content]
    ELSE IF file.cond = "missing" THEN [threw |-> FALSE, value |-> fallback]
    ELSE [threw |-> TRUE, value |-> << >>]

\* webhook.js lines 106-113: every error gives []
readUsers(file) ==
    IF file.cond = "ok" THEN [threw |-> FALSE, value |-> file.content]
    ELSE [threw |-> FALSE, value |-> << >>]

\* the records a collection file is made of
ReadRecords ==
    { InitialUsers[1], InitialUsers[2],
      [id |-> "u_1", name |-> << Ch.l >>, email |-> << Ch.l >>, passwordHash |-> "p",
       plan |-> "free", tokens |-> JsNum(0)] }

\* a collection file: content only when it is there and parses
ReadFiles ==
    { [path |-> p, cond |-> "ok", content |-> c] :
         p \in {"users", "pending"}, c \in UNION { [1..n -> ReadRecords] : n \in 0..MaxRecords } }
    \cup { [path |-> p, cond |-> k, content |-> << >>] :
              p \in {"users", "pending"}, k \in ReadConds \ {"ok"} }

NoReadResult == [called |-> FALSE, reader |-> "none", threw |-> FALSE, value |-> << >>]

ReadIdle ==
    /\ readArg = [path |-> "users", cond |-> "ok", content |-> << >>]
    /\ readRes = NoReadResult

ReadInit ==
    /\ readArg \in ReadFiles
    /\ readRes = NoReadResult

\* one read by an auth route: readJsonFile(USERS_PATH, []) or
\* readJsonFile(PENDING_USERS_PATH, [])
CallReadJsonFile ==
    LET r == readJsonFile(readArg, << >>)
    IN  /\ ~readRes.called
        /\ readRes' = [called |-> TRUE, reader |-> "readJsonFile",
                       threw |-> r.threw, value |-> r.value]
        /\ UNCHANGED readArg

\* one read by the payment route: readUsers()
CallReadUsers ==
    LET r == readUsers(readArg)
    IN  /\ ~readRes.called
        /\ readArg.path = "users"
        /\ readRes' = [called |-> TRUE, reader |-> "readUsers",
                       threw |-> r.threw, value |-> r.value]
        /\ UNCHANGED readArg

(***************************************************************************)
(* AI guide routes (part_001, POST /api/ask and /api/ask/personalized).    *)
(* Each handler runs to its response in one step: it touches no file, and  *)
(* the oracle's reply is an input ("json": a JSON document, "text": text   *)
(* that does not parse, "throws": the call fails).                         *)
(***************************************************************************)
GuideReplies == {"json", "text", "throws"}

\* req.body.city and req.body.interests of /api/ask/personalized
GuideTexts == { << >>, << Ch.sp >>, << Ch.sp, Ch.a >> }

NoAskResponse == [route |-> "none", plan |-> "", http |-> 0, oracleCalls |-> 0, error |-> ""]

GuideIdle == lastAsk = NoAskResponse

\* POST /api/ask, lines 397-470
Ask(plan, hasQuestion, reply) ==
    LET resp == [NoAskResponse EXCEPT !.route = "ask", !.plan = plan]
    IN  lastAsk' =
            IF ~planAllows(plan, << "premium" >>)
            THEN [resp EXCEPT !.http = 403,
                              !.error = "Your plan does not allow using the AI guide."]
            ELSE IF ~hasQuestion
            THEN [resp EXCEPT !.http = 400, !.error = "Question is required."]
            ELSE IF reply # "json"
            THEN [resp EXCEPT !.http = 500, !.oracleCalls = 1,
                              !.error = "Backend error while generating city guide."]
            ELSE [resp EXCEPT !.http = 200, !.oracleCalls = 1]

\* POST /api/ask/personalized, lines 472-535
AskPersonalized(plan, city, interests, reply) ==
    LET resp == [NoAskResponse EXCEPT !.route = "personalized", !.plan = plan]
    IN  lastAsk' =
            IF ~planAllows(plan, << "premium" >>)
            THEN [resp EXCEPT !.http = 403,
                              !.error = "Your plan does not allow using the AI guide."]
            ELSE IF city = << >> \/ interests = << >>
                    \/ Trim(city) = << >> \/ Trim(interests) = << >>
            THEN [resp EXCEPT !.http = 400, !.error = "City and interests are required."]
            ELSE IF reply # "json"
            THEN [resp EXCEPT !.http = 500, !.oracleCalls = 1,
                      !.error = "Backend error while generating personalized city guide."]
            ELSE [resp EXCEPT !.http = 200, !.oracleCalls = 1]

(***************************************************************************)
(* Session tokens.  A token carries the payload { userId, email, plan }    *)
(* that login, confirm and capture-order sign; the handlers read the       *)
(* payload of the presented token as req.user.                             *)
(***************************************************************************)
NoMeResponse == [called |-> FALSE, session |-> NoResponse.token, userId |-> "",
                 name |-> << >>, email |-> << >>, plan |-> "", tokens |-> 0]

SessionIdle ==
    /\ sessions = {}
    /\ lastMe = NoMeResponse

\* users.find((u) => u.id === req.user?.userId), 0 when there is none
FirstIndexById(records, id) ==
    LET S == { i \in 1..Len(records) : records[i].id = id }
    IN  IF S = {} THEN 0 ELSE CHOOSE i \in S : \A j \in S : i <= j

\* Number(match?.tokens || 0)
TokensOf(records, idx) ==
    IF idx # 0 /\ IsFiniteNumber(records[idx].tokens) THEN records[idx].tokens.v ELSE 0

\* a profile that reports the plan of the user record
Me_storedPlan(s) ==
    LET idx == FirstIndexById(users, s.userId)
    IN  lastMe' = [called |-> TRUE, session |-> s, userId |-> s.userId,
                   name |-> IF idx # 0 THEN users[idx].name ELSE << >>,
                   email |-> s.email,
                   plan |-> IF idx # 0 THEN users[idx].plan ELSE s.plan,
                   tokens |-> TokensOf(users, idx)]

\* GET /api/auth/me, lines 814-830, for the session token with payload s
Me(s) ==
    LET idx == FirstIndexById(users, s.userId)
    IN  lastMe' = [called |-> TRUE, session |-> s, userId |-> s.userId,
                   name |-> IF idx # 0 THEN users[idx].name ELSE << >>,
                   email |-> s.email,
                   plan |-> s.plan,
                   tokens |-> TokensOf(users, idx)]

\* the user login finds (part_001 lines 984-989), 0 when there is none
LoginIndex(identifier) ==
    LET S == { i \in 1..Len(users) :
                 \/ normalizeUserName(users[i].name) = normalizeUserName(identifier)
                 \/ normalizeEmail(users[i].email) = normalizeEmail(identifier) }
    IN  IF S = {} THEN 0 ELSE CHOOSE i \in S : \A j \in S : i <= j

\* POST /api/auth/login with the token it signs (lines 999-1007)
SessionLogin(identifier, password) ==
    /\ Login(identifier, password)
    /\ sessions' =
          IF lastAuth'.http = 200
          THEN sessions \cup { signUserToken(users[LoginIndex(identifier)], TRUE).payload }
          ELSE sessions

\* capture-order from the reply of the capture call to the response, with
\* the token it returns (webhook.js lines 257-265)
SessionCapture(c, body) ==
    /\ CaptureContinue(c, body)
    /\ sessions' = IF lastPay'.http = 200 THEN sessions \cup { lastPay'.token } ELSE sessions

ToolIdle == FindIdle /\ ReadIdle /\ GuideIdle /\ SessionIdle

(***************************************************************************)
(* POST /api/cities/generate (part_001 lines 705-754): the city generator  *)
(* reached by the name of the country.                                     *)
(***************************************************************************)
\* the countries directory: the one country file of the model
CountryDir ==
    << [file |-> << "p", "l", ".", "j", "s", "o", "n" >>, readable |-> TRUE,
        name |-> country.name] >>

\* the entitlement gate without its negation
CityGate_inverted(plan) == ~planAllows(plan, << "basic", "premium" >>)

\* lines 684 and 707: planAllows(req.user?.plan, ["basic", "premium"])
CityGate(plan) == planAllows(plan, << "basic", "premium" >>)

\* the route up to the generation oracle's reply: the entitlement gate and
\* the city checks (lines 707-721), the country given or else resolved from
\* the city by the geocoder (geo, << >> when it finds none; lines 723-730),
\* the lookup of the country's file (lines 732-735), the lookup of the city
\* (lines 737-745) and generateCityInFile's read and lookup (lines 219-236),
\* taken at one instant.  The call takes the first free slot.
GenerateByCountry(g, plan, city, countryIn, geo) ==
    LET trimmedCity == Trim(city)
        res == [NoGenResult EXCEPT !.route = "generate", !.plan = plan, !.req = trimmedCity]
        resolvedCountry == IF Trim(countryIn) # << >> THEN Trim(countryIn) ELSE geo
        match == findCountryFileByName(CountryDir, resolvedCountry)
        cities == country.cities
        idx == FirstIndexByName(cities, normalizeName(trimmedCity))
    IN  /\ genCalls[g].pc = "idle"
        /\ \A h \in GenIds : h < g => genCalls[h].pc # "idle"
        /\ IF ~CityGate(plan)
           THEN /\ lastGen' = [res EXCEPT !.http = 403,
                                          !.error = "Your plan does not allow adding new cities."]
                /\ UNCHANGED genCalls
           ELSE IF city = << >> \/ trimmedCity = << >>
           THEN /\ lastGen' = [res EXCEPT !.http = 400, !.error = "City is required."]
                /\ UNCHANGED genCalls
           ELSE IF resolvedCountry = << >>
           THEN /\ lastGen' = [res EXCEPT !.http = 404,
                                          !.error = "Country could not be resolved."]
                /\ UNCHANGED genCalls
           ELSE IF match.threw
           THEN /\ lastGen' = [res EXCEPT !.http = 500, !.error = NotAStringMessage]
                /\ UNCHANGED genCalls
           ELSE IF ~match.found
           THEN /\ lastGen' = [res EXCEPT !.http = 404,
                                          !.error = "No data file for resolved country."]
                /\ UNCHANGED genCalls
           ELSE IF idx # 0
           THEN /\ lastGen' = [res EXCEPT !.http = 200, !.city = cities[idx].name]
                /\ UNCHANGED genCalls
           ELSE /\ genCalls' = [genCalls EXCEPT ![g] =
                       [pc |-> "await", route |-> "generate", plan |-> plan,
                        city |-> trimmedCity, cities |-> cities]]
                /\ UNCHANGED lastGen
        /\ UNCHANGED << country, raced >>

\* req.body.city of the requests handled one at a time: "m", "b" and ""
RouteCities == { << Ch.m >>, << Ch.b >>, << >> }

\* req.body.city of the requests that differ in white space only: "ab",
\* "a b" and " ab"
LookupCities == { << Ch.a, Ch.b >>, << Ch.a, Ch.sp, Ch.b >>, << Ch.sp, Ch.a, Ch.b >> }

\* req.body.country: none, the country of the file, a country without a
\* file, and the name of an inherited member
RouteCountries ==
    { << >>, Str(<< " ", "p", "o", "l", "a", "n", "d" >>), Str(<< "M", "a", "r", "s" >>),
      Str(<< "c", "o", "n", "s", "t", "r", "u", "c", "t", "o", "r" >>) }

\* the geocoder's answer for the city: no country, or Poland
GeoAnswers == { << >>, Str(<< "P", "o", "l", "a", "n", "d" >>) }

\* evaluations of planAllows over the plan values and allowed lists
NextPlan == CallPlanAllows /\ UNCHANGED << payVars, cityVars, fileVars, authVars, toolVars >>

InitPlan == PlanInit /\ PayIdle /\ CityIdle /\ FileIdle /\ AuthIdle /\ ToolIdle

SpecPlan == InitPlan /\ [][NextPlan]_vars

\* the create-order route over every amount and oracle outcome
NextCreate ==
    \E input \in AmountInputs, tokenOk \in BOOLEAN, oracleRes \in {"ok", "fail", "noid"} :
        CreateOrder(input, tokenOk, oracleRes) /\ UNCHANGED << planVars, cityVars, fileVars, authVars, toolVars >>

InitCreate == PlanIdle /\ PayInit /\ CityIdle /\ FileIdle /\ AuthIdle /\ ToolIdle

SpecCreate == InitCreate /\ [][NextCreate]_vars

\* the payment routes, one capture request at a time, every capture reply
NextPay ==
    \/ \E oracleRes \in {"ok", "fail"} :
          CreateOrder(JsNum(5000), TRUE, oracleRes) /\ UNCHANGED << planVars, cityVars, fileVars, authVars, toolVars >>
    \/ \E oin \in OrderInputs, email \in SessionEmails, tokenOk \in BOOLEAN, accept \in BOOLEAN :
          CaptureRequest(1, oin, email, tokenOk, accept) /\ UNCHANGED << planVars, cityVars, fileVars, authVars, toolVars >>
    \/ \E body \in CaptureBodies :
          CaptureContinue(1, body) /\ UNCHANGED << planVars, cityVars, fileVars, authVars, toolVars >>

InitPay == PlanIdle /\ PayInit /\ CityIdle /\ FileIdle /\ AuthIdle /\ ToolIdle

SpecPay == InitPay /\ [][NextPay]_vars

\* the payment routes with capture requests in flight together
NextPayRace ==
    \/ \E oracleRes \in {"ok", "fail"} :
          CreateOrder(JsNum(5000), TRUE, oracleRes) /\ UNCHANGED << planVars, cityVars, fileVars, authVars, toolVars >>
    \/ \E c \in CallIds, oin \in OrderIds, email \in RaceEmails, accept \in BOOLEAN :
          CaptureRequest(c, oin, email, TRUE, accept) /\ UNCHANGED << planVars, cityVars, fileVars, authVars, toolVars >>
    \/ \E c \in CallIds, body \in RaceBodies :
          CaptureContinue(c, body) /\ UNCHANGED << planVars, cityVars, fileVars, authVars, toolVars >>

InitPayRace == PlanIdle /\ PayRaceInit /\ CityIdle /\ FileIdle /\ AuthIdle /\ ToolIdle

SpecPayRace == InitPayRace /\ [][NextPayRace]_vars

\* the city generator, calls in flight together
NextCity ==
    \/ \E g \in GenIds, plan \in {"free", "basic"}, city \in CityInputs :
          GenerateRequest(g, plan, city) /\ UNCHANGED << planVars, payVars, fileVars, authVars, toolVars >>
    \/ \E g \in GenIds, out \in OracleOutputs :
          GenerateContinue(g, out) /\ UNCHANGED << planVars, payVars, fileVars, authVars, toolVars >>

InitCity == PlanIdle /\ PayIdle /\ CityInit /\ FileIdle /\ AuthIdle /\ ToolIdle

SpecCity == InitCity /\ [][NextCity]_vars

\* evaluations of findCountryFileByName over the names and directories
NextFind ==
    CallFind /\ UNCHANGED << planVars, payVars, cityVars, fileVars, authVars, readVars, lastAsk, sessVars >>

InitFind ==
    PlanIdle /\ PayIdle /\ CityIdle /\ FileIdle /\ AuthIdle /\ FindInit /\ ReadIdle /\ GuideIdle
    /\ SessionIdle

SpecFind == InitFind /\ [][NextFind]_vars

\* reads of the collection files by the auth routes and by the payment route
NextRead ==
    \/ CallReadJsonFile
          /\ UNCHANGED << planVars, payVars, cityVars, fileVars, authVars, findVars, lastAsk, sessVars >>
    \/ CallReadUsers
          /\ UNCHANGED << planVars, payVars, cityVars, fileVars, authVars, findVars, lastAsk, sessVars >>

InitRead ==
    PlanIdle /\ PayIdle /\ CityIdle /\ FileIdle /\ AuthIdle /\ FindIdle /\ ReadInit /\ GuideIdle
    /\ SessionIdle

SpecRead == InitRead /\ [][NextRead]_vars

\* the city and AI guide routes, one request at a time, every plan value
NextRoutes ==
    \/ \E plan \in PlanInputs, city \in RouteCities :
          GenerateRequest(1, plan, city)
             /\ UNCHANGED << planVars, payVars, fileVars, authVars, findVars, readVars, lastAsk, sessVars >>
    \/ \E plan \in PlanInputs, city \in RouteCities, countryIn \in RouteCountries,
          geo \in GeoAnswers :
          GenerateByCountry(1, plan, city, countryIn, geo)
             /\ UNCHANGED << planVars, payVars, fileVars, authVars, findVars, readVars, lastAsk, sessVars >>
    \/ \E out \in OracleOutputs :
          GenerateContinue(1, out)
             /\ UNCHANGED << planVars, payVars, fileVars, authVars, findVars, readVars, lastAsk, sessVars >>
    \/ \E plan \in PlanInputs, hasQuestion \in BOOLEAN, reply \in GuideReplies :
          Ask(plan, hasQuestion, reply)
             /\ UNCHANGED << planVars, payVars, cityVars, fileVars, authVars, findVars, readVars, sessVars >>
    \/ \E plan \in PlanInputs, city \in GuideTexts, interests \in GuideTexts,
          reply \in GuideReplies :
          AskPersonalized(plan, city, interests, reply)
             /\ UNCHANGED << planVars, payVars, cityVars, fileVars, authVars, findVars, readVars, sessVars >>

\* a basic plan's requests to POST /api/countries/:file/cities, one at a
\* time, for names that differ in white space only
NextLookup ==
    \/ \E city \in LookupCities :
          GenerateRequest(1, "basic", city)
             /\ UNCHANGED << planVars, payVars, fileVars, authVars, toolVars >>
    \/ \E city \in LookupCities, geo \in GeoAnswers :
          GenerateByCountry(1, "basic", city, << >>, geo)
             /\ UNCHANGED << planVars, payVars, fileVars, authVars, toolVars >>
    \/ \E out \in OracleOutputs :
          GenerateContinue(1, out)
             /\ UNCHANGED << planVars, payVars, fileVars, authVars, toolVars >>

InitLookup == PlanIdle /\ PayIdle /\ CityInit /\ FileIdle /\ AuthIdle /\ ToolIdle

SpecLookup == InitLookup /\ [][NextLookup]_vars

InitRoutes == PlanIdle /\ PayIdle /\ CityInit /\ FileIdle /\ AuthIdle /\ ToolIdle

SpecRoutes == InitRoutes /\ [][NextRoutes]_vars

\* the routes that take a country file name from the request
NextFile ==
    \/ \E exists \in BOOLEAN :
          GetCountryFile(exists) /\ UNCHANGED << planVars, payVars, cityVars, authVars, toolVars >>
    \/ \E coordsOk \in BOOLEAN, outcome \in {"found", "none", "unreadable"} :
          GeoNearest(coordsOk, outcome) /\ UNCHANGED << planVars, payVars, cityVars, authVars, toolVars >>

InitFile == PlanIdle /\ PayIdle /\ CityIdle /\ FileInit /\ AuthIdle /\ ToolIdle

SpecFile == InitFile /\ [][NextFile]_vars

\* signup, confirm and login, one request at a time, over every input
NextAuthSeq ==
    \/ \E name \in SignupNames, email \in SignupEmails, password \in BOOLEAN :
          SignupRequest(1, name, email, password)
             /\ UNCHANGED << planVars, payRest, cityVars, fileVars, toolVars >>
    \/ SignupReadPending(1, TRUE) /\ UNCHANGED << planVars, payRest, cityVars, fileVars, toolVars >>
    \/ \E mailOk \in BOOLEAN :
          SignupWrite(1, mailOk) /\ UNCHANGED << planVars, payRest, cityVars, fileVars, toolVars >>
    \/ SignupPop(1) /\ UNCHANGED << planVars, payRest, cityVars, fileVars, toolVars >>
    \/ \E token \in 0..MaxTokens :
          ConfirmRequest(1, token) /\ UNCHANGED << planVars, payRest, cityVars, fileVars, toolVars >>
    \/ ConfirmWritePending(1) /\ UNCHANGED << planVars, payRest, cityVars, fileVars, toolVars >>
    \/ ConfirmReadUsers(1) /\ UNCHANGED << planVars, payRest, cityVars, fileVars, toolVars >>
    \/ ConfirmWriteUsers(1, TRUE) /\ UNCHANGED << planVars, payRest, cityVars, fileVars, toolVars >>
    \/ \E identifier \in LoginIdentifiers, password \in LoginPasswords :
          /\ authCalls[1].pc = "idle"
          /\ Login(identifier, password)
          /\ UNCHANGED << planVars, payRest, cityVars, fileVars, toolVars >>

\* with and without JWT_SECRET
InitAuthSeq ==
    /\ PlanIdle /\ PayInit /\ CityIdle /\ FileIdle /\ AuthInit /\ ToolIdle
    /\ config.paypal
    /\ config.merchantId = ""

SpecAuthSeq == InitAuthSeq /\ [][NextAuthSeq]_vars

\* signup, confirm and login requests in flight together, over the fresh
\* names and e-mails
NextAuth ==
    \/ \E a \in AuthIds, name \in AuthRaceNames, email \in AuthRaceEmails :
          SignupRequest(a, name, email, TRUE)
             /\ UNCHANGED << planVars, payRest, cityVars, fileVars, toolVars >>
    \/ \E a \in AuthIds :
          SignupReadPending(a, TRUE) /\ UNCHANGED << planVars, payRest, cityVars, fileVars, toolVars >>
    \/ \E a \in AuthIds, mailOk \in BOOLEAN :
          SignupWrite(a, mailOk) /\ UNCHANGED << planVars, payRest, cityVars, fileVars, toolVars >>
    \/ \E a \in AuthIds :
          SignupPop(a) /\ UNCHANGED << planVars, payRest, cityVars, fileVars, toolVars >>
    \/ \E a \in AuthIds, token \in TokenIds :
          ConfirmRequest(a, token) /\ UNCHANGED << planVars, payRest, cityVars, fileVars, toolVars >>
    \/ \E a \in AuthIds :
          ConfirmWritePending(a) /\ UNCHANGED << planVars, payRest, cityVars, fileVars, toolVars >>
    \/ \E a \in AuthIds :
          ConfirmReadUsers(a) /\ UNCHANGED << planVars, payRest, cityVars, fileVars, toolVars >>
    \/ \E a \in AuthIds :
          ConfirmWriteUsers(a, TRUE) /\ UNCHANGED << planVars, payRest, cityVars, fileVars, toolVars >>
    \/ Login(<< Ch.a >>, "p") /\ UNCHANGED << planVars, payRest, cityVars, fileVars, toolVars >>

\* signup and confirm, one request at a time, where the clock need not move
\* between two signups and the write of users.json may fail
NextAuthEnv ==
    \/ \E name \in AuthRaceNames, email \in AuthRaceEmails :
          SignupRequest(1, name, email, TRUE)
             /\ UNCHANGED << planVars, payRest, cityVars, fileVars, toolVars >>
    \/ \E tick \in BOOLEAN :
          SignupReadPending(1, tick)
             /\ UNCHANGED << planVars, payRest, cityVars, fileVars, toolVars >>
    \/ \E mailOk \in BOOLEAN :
          SignupWrite(1, mailOk) /\ UNCHANGED << planVars, payRest, cityVars, fileVars, toolVars >>
    \/ SignupPop(1) /\ UNCHANGED << planVars, payRest, cityVars, fileVars, toolVars >>
    \/ \E token \in TokenIds :
          ConfirmRequest(1, token) /\ UNCHANGED << planVars, payRest, cityVars, fileVars, toolVars >>
    \/ ConfirmWritePending(1) /\ UNCHANGED << planVars, payRest, cityVars, fileVars, toolVars >>
    \/ ConfirmReadUsers(1) /\ UNCHANGED << planVars, payRest, cityVars, fileVars, toolVars >>
    \/ \E written \in BOOLEAN :
          ConfirmWriteUsers(1, written)
             /\ UNCHANGED << planVars, payRest, cityVars, fileVars, toolVars >>

InitAuthEnv == PlanIdle /\ PayIdle /\ CityIdle /\ FileIdle /\ AuthInit /\ ToolIdle

SpecAuthEnv == InitAuthEnv /\ [][NextAuthEnv]_vars

\* a capture-order request of user u1 and a signup with its confirmation in
\* flight together
NextPayAuth ==
    \/ \E oracleRes \in {"ok", "fail"} :
          CreateOrder(JsNum(5000), TRUE, oracleRes)
             /\ UNCHANGED << planVars, cityVars, fileVars, authVars, toolVars >>
    \/ \E oin \in OrderIds, accept \in BOOLEAN :
          CaptureRequest(1, oin, << Ch.sp, Ch.A >>, TRUE, accept)
             /\ UNCHANGED << planVars, cityVars, fileVars, authVars, toolVars >>
    \/ \E body \in ErrorBodies \cup { GoodBody(JsNum(10000), "") } :
          CaptureContinue(1, body)
             /\ UNCHANGED << planVars, cityVars, fileVars, authVars, toolVars >>
    \/ \E name \in AuthRaceNames :
          SignupRequest(1, name, name, TRUE)
             /\ UNCHANGED << planVars, payRest, cityVars, fileVars, toolVars >>
    \/ SignupReadPending(1, TRUE) /\ UNCHANGED << planVars, payRest, cityVars, fileVars, toolVars >>
    \/ \E mailOk \in BOOLEAN :
          SignupWrite(1, mailOk) /\ UNCHANGED << planVars, payRest, cityVars, fileVars, toolVars >>
    \/ SignupPop(1) /\ UNCHANGED << planVars, payRest, cityVars, fileVars, toolVars >>
    \/ \E token \in TokenIds :
          ConfirmRequest(1, token) /\ UNCHANGED << planVars, payRest, cityVars, fileVars, toolVars >>
    \/ ConfirmWritePending(1) /\ UNCHANGED << planVars, payRest, cityVars, fileVars, toolVars >>
    \/ ConfirmReadUsers(1) /\ UNCHANGED << planVars, payRest, cityVars, fileVars, toolVars >>
    \/ ConfirmWriteUsers(1, TRUE) /\ UNCHANGED << planVars, payRest, cityVars, fileVars, toolVars >>

InitPayAuth == PlanIdle /\ PayIdle /\ CityIdle /\ FileIdle /\ AuthInit /\ ToolIdle

SpecPayAuth == InitPayAuth /\ [][NextPayAuth]_vars

\* a user's sessions: login, payment, profile and city generation, each
\* request with one of the session tokens issued so far
NextSession ==
    \/ \E identifier \in { << Ch.a >>, << Ch.l >> } :
          SessionLogin(identifier, "p")
             /\ UNCHANGED << planVars, payRest, cityVars, fileVars, findVars, readVars,
                             lastAsk, lastMe >>
    \/ \E oracleRes \in {"ok", "fail"} :
          CreateOrder(JsNum(5000), TRUE, oracleRes)
             /\ UNCHANGED << planVars, cityVars, fileVars, authVars, toolVars >>
    \/ \E s \in sessions, oin \in OrderIds :
          CaptureRequest(1, oin, s.email, TRUE, TRUE)
             /\ UNCHANGED << planVars, cityVars, fileVars, authVars, toolVars >>
    \/ \E body \in { GoodBody(JsNum(5000), ""), GoodBody(JsNum(10000), ""), EmptyBody } :
          SessionCapture(1, body)
             /\ UNCHANGED << planVars, cityVars, fileVars, authVars, findVars, readVars,
                             lastAsk, lastMe >>
    \/ \E s \in sessions :
          Me(s)
             /\ UNCHANGED << planVars, payVars, cityVars, fileVars, authVars, findVars,
                             readVars, lastAsk, sessions >>
    \/ \E s \in sessions :
          GenerateRequest(1, s.plan, << Ch.m >>)
             /\ UNCHANGED << planVars, payVars, fileVars, authVars, toolVars >>
    \/ \E out \in OracleOutputs :
          GenerateContinue(1, out)
             /\ UNCHANGED << planVars, payVars, fileVars, authVars, toolVars >>

InitSession == PlanIdle /\ PayIdle /\ CityIdle /\ FileIdle /\ AuthIdle /\ ToolIdle

SpecSession == InitSession /\ [][NextSession]_vars

InitAuth == PlanIdle /\ PayIdle /\ CityIdle /\ FileIdle /\ AuthInit /\ ToolIdle

SpecAuth == InitAuth /\ [][NextAuth]_vars

(***************************************************************************)
(* Properties.                                                             *)
(***************************************************************************)
\* rank and result of planAllows as the contract states them
ClaimRank(p) == IF p \in DOMAIN PLAN_RANK THEN PLAN_RANK[p] ELSE PLAN_RANK.free

ClaimPlanAllows(p, R) ==
    LET known == { i \in 1..Len(R) : R[i] \in DOMAIN PLAN_RANK }
    IN  IF known = {} THEN FALSE
        ELSE IF \A i \in known : R[i] = "free" THEN ClaimRank(p) = ClaimRank("free")
        ELSE \E i \in known :
                /\ \A j \in known : PLAN_RANK[R[i]] <= PLAN_RANK[R[j]]
                /\ ClaimRank(p) >= PLAN_RANK[R[i]]

\* C1: for every plan value p (a value outside the four plans ranks as free)
\* and every list R, planAllows(p, R) is false when R holds no known plan
\* name, is rank(p) = rank(free) when every known name of R is free, and is
\* rank(p) >= the minimum rank of the known names of R otherwise.
C1_PlanAllowsContract ==
    planRes.called => planRes.value = ClaimPlanAllows(planArg, allowedArg)

\* an amount (in thousandths) that rounds to a.00
ClaimRoundsTo(value, a) ==
    /\ value.t = "number"
    /\ value.v >= a * 1000 - 5
    /\ value.v <= a * 1000 + 4

ClaimAllowedAmount(value) == \E a \in {5, 10, 20} : ClaimRoundsTo(value, a)

ClaimTokens(a) == CASE a = 5 -> 7 [] a = 10 -> 20 [] a = 20 -> 50

ClaimPlan(a) == CASE a = 5 -> "basic" [] a = 10 -> "premium" [] a = 20 -> "premium_plus"

ClaimPrevTokens(u) == IF u.tokens.t = "number" THEN u.tokens.v ELSE 0

\* the user records whose normalized e-mail is that of the session
ClaimMatches(us, email) ==
    { i \in 1..Len(us) : normalizeEmail(us[i].email) = normalizeEmail(email) }

\* the step in which capture request c is answered after the capture call
ContinueStep(c) == capCalls[c].pc = "await" /\ capCalls'[c].pc = "idle"

\* C2: a successful captureOrder whose capture is COMPLETED, in EUR, with
\* amount 5, 10 or 20 adds exactly 7, 20 or 50 tokens to the authenticated
\* user's previous token count and sets that user's plan to basic, premium
\* or premium_plus, whatever the previous plan was.
C2_CaptureCredits ==
    [][ \A c \in CallIds : \A a \in {5, 10, 20} :
          ( /\ ContinueStep(c)
            /\ lastPay'.http = 200
            /\ lastPay'.body.capStatus = "COMPLETED"
            /\ lastPay'.body.currency = "EUR"
            /\ ClaimRoundsTo(lastPay'.body.value, a) )
          => \E i \in ClaimMatches(users, capCalls[c].email) :
                /\ users'[i].tokens = JsNum(ClaimPrevTokens(users[i]) + ClaimTokens(a))
                /\ users'[i].plan = ClaimPlan(a)
                /\ lastPay'.tokensAdded = ClaimTokens(a)
                /\ lastPay'.totalTokens = ClaimPrevTokens(users[i]) + ClaimTokens(a)
                /\ lastPay'.plan = ClaimPlan(a) ]_vars

\* C2 witness: a payment of 5 after a payment of 20 by user u1, who had 3
\* tokens: 60 tokens, and the plan lowered to basic.
C2_Witness ==
    /\ lastPay.route = "capture"
    /\ lastPay.http = 200
    /\ lastPay.tokensAdded = 7
    /\ lastPay.totalTokens = 60
    /\ users[1].tokens = JsNum(60)
    /\ users[1].plan = "basic"

\* a capture with a status other than COMPLETED, a currency other than EUR,
\* or an amount that does not round to 5, 10 or 20
ClaimBadCapture(b) ==
    \/ b.capStatus \notin {"", "COMPLETED"}
    \/ b.currency # "EUR"
    \/ ~ClaimAllowedAmount(b.value)

C4_OneCreditPerOrder ==
    [][ \A o \in OrderIds :
          /\ credits'[o] <= 1
          /\ \A c \in CallIds :
                ( ContinueStep(c) /\ capCalls[c].order = o /\ credits[o] >= 1 )
                => ( lastPay'.http >= 400 /\ users' = users ) ]_vars

\* C4 witness: every order has been credited once, and the last response
\* is the failure of a capture request the oracle refused as already
\* captured.
C4_Witness ==
    /\ \A o \in OrderIds : credits[o] = 1
    /\ lastPay.route = "capture"
    /\ lastPay.http = 502
    /\ lastPay.error = "ORDER_ALREADY_CAPTURED"

\* C5: every payment follows CREATED -> CAPTURED -> CREDITED or
\* CREATED -> REJECTED; CREDITED and REJECTED are terminal, and no payment
\* the oracle has captured ends REJECTED by a validation gate.
C5_PaymentPaths ==
    [][ \A o \in OrderIds :
          payState'[o] # payState[o] =>
            << payState[o], payState'[o] >> \in
                { << "NONE", "CREATED" >>, << "CREATED", "CAPTURED" >>,
                  << "CAPTURED", "CREDITED" >>, << "CREATED", "REJECTED" >> } ]_vars

\* a reply every check of the handler lets through whatever the reading of
\* the payee and status rules
ClaimCleanCapture(b, merchantId) ==
    /\ b.capStatus = "COMPLETED"
    /\ b.currency = "EUR"
    /\ ClaimAllowedAmount(b.value)
    /\ merchantId = "" \/ b.payee = merchantId

\* C6: captureOrder credits only the user record whose normalized e-mail
\* equals the normalized e-mail of the session; every other record is left
\* unchanged; when no record matches, the call fails with 404 and writes
\* nothing.
C6_CreditsSessionUserOnly ==
    [][ \A c \in CallIds :
          ( ContinueStep(c) /\ capCalls[c].ok ) =>
            LET M == ClaimMatches(users, capCalls[c].email)
                clean == ClaimCleanCapture(lastPay'.body, config.merchantId)
            IN  /\ Len(users') = Len(users)
                /\ \A i \in 1..Len(users) : i \notin M => users'[i] = users[i]
                /\ M = {} => ( users' = users /\ lastPay'.http # 200 )
                /\ (M = {} /\ clean) => lastPay'.http = 404
                /\ lastPay'.http = 404 => M = {}
                /\ (M # {} /\ clean) =>
                      \E i \in M : /\ users'[i] # users[i]
                                   /\ \A j \in M : j # i => users'[j] = users[j] ]_vars

\* C6 witness: the session " A" was credited on the record of "a" while the
\* record of user u2 is as it was, and the last request, of a session that
\* names no user, was answered 404.
C6_Witness ==
    /\ lastPay.route = "capture"
    /\ lastPay.http = 404
    /\ users[1].tokens # InitialUsers[1].tokens
    /\ users[2] = InitialUsers[2]

\* C7: createOrder asks the payment oracle for an order only when the
\* requested amount, rounded to 2 decimals, is exactly 5, 10 or 20, and then
\* for exactly that amount in EUR; every other amount is answered 400
\* without contacting the oracle.
C7_CreateOrderValidates ==
    lastPay.route = "create" =>
        /\ lastPay.sent # JsNull =>
              \E a \in {5, 10, 20} :
                 /\ ClaimRoundsTo(lastPay.input, a)
                 /\ lastPay.sent = JsNum(a * 1000)
                 /\ lastPay.sentCurrency = "EUR"
        /\ ~ClaimAllowedAmount(lastPay.input) =>
              /\ lastPay.http = 400
              /\ ~lastPay.contacted
              /\ lastPay.sent = JsNull
        /\ lastPay.http = 200 => lastPay.sent # JsNull

\* C7 witness: an order was created for 5.00 EUR from the requested 5.004.
C7_Witness ==
    /\ lastPay.route = "create"
    /\ lastPay.http = 200
    /\ lastPay.input = JsNum(5004)
    /\ lastPay.sent = JsNum(5000)
    /\ lastPay.sentCurrency = "EUR"

\* C8: when a merchant identity is configured, captureOrder credits the
\* user only if the payee identifier of the captured order is present and
\* equals the configured identity.
C8_PayeeRequired ==
    [][ \A c \in CallIds :
          ( ContinueStep(c) /\ config.merchantId # "" /\ users' # users )
          => lastPay'.body.payee = config.merchantId ]_vars

AllGenIdle == \A g \in GenIds : genCalls[g].pc = "idle"

\* C9: two calls of resolve-or-generate in sequence with the same city name:
\* the first, which finds the file as it read it, adds exactly one city with
\* one oracle call; the second returns created=false with the stored name,
\* calls no oracle and leaves the record as it is, whatever name the oracle
\* had put in its output.
C9_SecondCallFinds ==
    [][ /\ \A g \in GenIds :
              ( /\ genCalls[g].pc = "await"
                /\ genCalls'[g].pc = "idle"
                /\ lastGen'.created
                /\ genCalls[g].cities = country.cities )
              => /\ Len(country'.cities) = Len(country.cities) + 1
                 /\ lastGen'.oracleCalls = 1
        /\ ( AllGenIdle /\ lastGen.created /\ lastGen.http = 200 ) =>
              /\ \A g \in GenIds :
                    genCalls'[g].pc = "await" => genCalls'[g].city # lastGen.req
              /\ ( lastGen' # lastGen /\ lastGen'.req = lastGen.req /\ lastGen'.http = 200 ) =>
                    /\ ~lastGen'.created
                    /\ lastGen'.oracleCalls = 0
                    /\ lastGen'.city = lastGen.city
                    /\ country' = country ]_vars

\* C9 witness: "m" was created, next to the one city the record had, by a
\* call for which the oracle named another city, and the last call, for "m"
\* again, found it.
C9_Witness ==
    /\ AllGenIdle
    /\ lastGen.http = 200
    /\ ~lastGen.created
    /\ lastGen.oracleCalls = 0
    /\ lastGen.req = << Ch.m >>
    /\ lastGen.city = << Ch.m >>
    /\ Len(country.cities) = 2

NormalizedNameOf(cs, i) == normalizeName(cs[i].name)

\* ascending in the code unit order of the normalized names
SortedByNormalizedName(cs) ==
    \A i, j \in 1..Len(cs) :
        i < j => ~CodeUnitLess(NormalizedNameOf(cs, j), NormalizedNameOf(cs, i))

\* ascending under the comparison the code sorts with
SortedByLocaleCompare(cs) ==
    \A i, j \in 1..Len(cs) : i < j => localeCompare(cs[i].name, cs[j].name) <= 0

\* every normalized name is made of the letters a-z and spaces
FoldsToPlainLetters(cs) ==
    \A i \in 1..Len(cs) : \A k \in 1..Len(NormalizedNameOf(cs, i)) :
        NormalizedNameOf(cs, i)[k] \in (97..122) \cup {Ch.sp}

EntriesFor(n) ==
    Cardinality({ i \in 1..Len(country.cities) : NormalizedNameOf(country.cities, i) = n })

\* the set of names of a city list
NameSet(cs) == { cs[i].name : i \in 1..Len(cs) }

\* C11: in every reachable state, under any interleaving of resolve-or-
\* generate requests starting from a record without duplicates, no two
\* cities of the persisted record share a normalized name.
C11_NoDuplicateCity ==
    \A i, j \in 1..Len(country.cities) :
        i < j => NormalizedNameOf(country.cities, i) # NormalizedNameOf(country.cities, j)

\* calls have overlapped on one city, all have returned, and the record
\* has grown to three cities or more
C11_Witness ==
    /\ raced # {}
    /\ AllGenIdle
    /\ Len(country.cities) >= 3

\* C12: a call that passed the not-found check and got a valid document
\* from the oracle returns created = true after one oracle call and
\* persists the list it read plus its own city, whatever was written to the
\* file in the meantime (the later write replaces the earlier one); so two
\* concurrent calls for the same absent city both create.
C12_LastWriterWins ==
    [][ \A g \in GenIds :
          ( genCalls[g].pc = "await" /\ genCalls'[g].pc = "idle" /\ lastGen'.http = 200 ) =>
             /\ lastGen'.created
             /\ lastGen'.oracleCalls = 1
             /\ Len(country'.cities) = Len(genCalls[g].cities) + 1
             /\ NameSet(country'.cities) = NameSet(genCalls[g].cities) \cup {lastGen'.city}
      ]_vars

\* the second of two overlapping calls for one city has just returned
\* created = true: both passed the check, both called the oracle, both wrote
C12_Witness ==
    /\ lastGen.created
    /\ lastGen.oracleCalls = 1
    /\ normalizeName(lastGen.req) \in raced

\* C13 as stated: once two overlapping calls for the same absent city have
\* both written, the record holds two entries for that city.
C13_RaceLeavesDuplicate ==
    \A n \in raced :
        ( lastGen.created /\ normalizeName(lastGen.req) = n ) => EntriesFor(n) = 2

\* C13 amended: a city two overlapping calls have both created never has
\* more than one entry in the record, and has exactly one when the later of
\* the two writes has just been made.
C13_RaceLeavesOneEntry ==
    \A n \in raced :
        /\ EntriesFor(n) <= 1
        /\ ( lastGen.created /\ normalizeName(lastGen.req) = n ) => EntriesFor(n) = 1

C13_Witness ==
    \E n \in raced :
        /\ AllGenIdle
        /\ lastGen.created
        /\ normalizeName(lastGen.req) = n
        /\ EntriesFor(n) = 1

RECURSIVE TotalTokens(_)
\* the tokens of every user record together (a count that is not a number is 0)
TotalTokens(us) ==
    IF us = << >> THEN 0
    ELSE (IF IsFiniteNumber(Head(us).tokens) THEN Head(us).tokens.v ELSE 0)
         + TotalTokens(Tail(us))

\* two different orders have been credited and no capture request is running
TwoOrdersCredited ==
    /\ \E o1, o2 \in OrderIds : o1 # o2 /\ credits[o1] = 1 /\ credits[o2] = 1
    /\ \A c \in CallIds : capCalls[c].pc = "idle"

\* C14 as stated: two overlapping captureOrder calls for two orders of the
\* same user have both returned success and the persisted tokens grew by
\* less than the two grants (one credit was overwritten).
C14_LostUpdate ==
    ( ledger.raced /\ TwoOrdersCredited ) =>
        TotalTokens(users) < TotalTokens(InitialUsers) + ledger.granted

\* C14 amended: under every interleaving of captureOrder calls the persisted
\* tokens are the initial tokens plus every grant returned with success; no
\* credit is overwritten.
C14_NoLostCredit ==
    TotalTokens(users) = TotalTokens(InitialUsers) + ledger.granted

\* two captures for two orders of one user overlapped and both were credited
C14_Witness ==
    /\ ledger.raced
    /\ TwoOrdersCredited
    /\ ledger.granted > 50

\* the directory a name leads to when its segments are followed one by one
\* from `dir` (a list of directory names below the file system root)
RECURSIVE ClaimFollow(_, _)
ClaimFollow(segs, dir) ==
    IF segs = << >> THEN dir
    ELSE IF Head(segs) \in { << >>, << "." >> } THEN ClaimFollow(Tail(segs), dir)
    ELSE IF Head(segs) = << ".", "." >>
    THEN ClaimFollow(Tail(segs), IF dir = << >> THEN dir ELSE SubSeq(dir, 1, Len(dir) - 1))
    ELSE ClaimFollow(Tail(segs), Append(dir, Head(segs)))

\* the countries root as a list of directory names
ClaimRoot == << << "d" >>, << "c" >> >>

\* where a name leads: from the file system root when it is absolute, from
\* the countries root otherwise
ClaimTarget(name) ==
    ClaimFollow(SplitPath(name, << >>),
                IF name # << >> /\ Head(name) = "/" THEN << >> ELSE ClaimRoot)

\* the target lies strictly inside the countries root
ClaimInsideRoot(target) ==
    /\ Len(target) > Len(ClaimRoot)
    /\ SubSeq(target, 1, Len(ClaimRoot)) = ClaimRoot

\* C15: a resource name that does not end in .json, or that does not lead
\* strictly inside the countries root, is answered 400 and no file is read
\* for it; and every path a handler reads lies strictly inside the root.
C15_PathConfinement ==
    fileRes.called =>
        /\ ( ~EndsWith(fileArg, JsonSuffix) \/ ~ClaimInsideRoot(ClaimTarget(fileArg)) ) =>
               ( fileRes.http = 400 /\ fileRes.path = << >> )
        /\ fileRes.path # << >> =>
               /\ ClaimInsideRoot(ClaimTarget(fileRes.path))
               /\ ClaimTarget(fileRes.path) = ClaimTarget(fileArg)

\* a name with a ".." segment that ends in .json and leaves the root has
\* been refused
C15_Witness ==
    /\ fileRes.called
    /\ fileRes.http = 400
    /\ StartsWith(fileArg, << ".", ".", "/" >>)
    /\ EndsWith(fileArg, JsonSuffix)
    /\ ~ClaimInsideRoot(ClaimTarget(fileArg))

\* the pending entries that hold token t
PendingWith(t) ==
    Cardinality({ i \in 1..Len(pending) : pending[i].token = t })

\* a signup or confirm request for token t is still running
InFlight(t) ==
    \E a \in AuthIds : authCalls[a].pc # "idle" /\ authCalls[a].entry.token = t

AllAuthIdle == \A a \in AuthIds : authCalls[a].pc = "idle"

\* the user records promoted from the pending entry of token t
PromotedFrom(t) ==
    { i \in 1..Len(users) : users[i].id = "u_" \o ToString(t) }

\* the user records whose normalized e-mail is that of record i
SameEmailAs(i) ==
    { j \in 1..Len(users) : normalizeEmail(users[j].email) = normalizeEmail(users[i].email) }

\* the tokens whose confirmation has run to its end
Consumed == { t \in TokenIds : audit.found[t] >= 1 /\ ~InFlight(t) }

\* the state part of C16
RoundTripState ==
    /\ \A t \in TokenIds :
          /\ ( t \in audit.mailed /\ audit.found[t] = 0 /\ ~InFlight(t) ) =>
                 PendingWith(t) = 1
          /\ t \in Consumed =>
                 /\ audit.found[t] = 1
                 /\ PendingWith(t) = 0
                 /\ Cardinality(PromotedFrom(t)) = 1
                 /\ \A i \in PromotedFrom(t) : SameEmailAs(i) = {i}
    /\ Len(users) = Len(InitialUsers) + Cardinality(Consumed)

\* C16: for signups handled one request at a time: after signup the token
\* is in exactly one pending entry; the first confirm removes the entry and
\* adds exactly one user record; a later confirm with the same token is
\* answered 400 (invalid token) and changes nothing, the user collection
\* still holding exactly one record for that e-mail.
C16_SignupConfirmRoundTrip ==
    [][ /\ RoundTripState'
        /\ \A t \in Consumed :
              ( AllAuthIdle /\ AllAuthIdle' /\ lastAuth' # lastAuth
                /\ lastAuth'.route = "confirm" /\ lastAuth'.token = t ) =>
                  /\ lastAuth'.http = 400
                  /\ users' = users
                  /\ pending' = pending
      ]_vars

\* a token was mailed, confirmed once, and a second confirm was refused
C16_Witness ==
    \E t \in Consumed :
        /\ t \in audit.mailed
        /\ AllAuthIdle
        /\ lastAuth.route = "confirm"
        /\ lastAuth.token = t
        /\ lastAuth.http = 400
        /\ Cardinality(PromotedFrom(t)) = 1

\* C17: under every interleaving, at most one confirm request succeeds
\* (answers with a session token) for any confirmation token.
C17_TokenSingleUse ==
    \A t \in TokenIds : audit.confirms[t] <= 1

\* a record of the list has the normalized e-mail or the normalized name
ClaimSignupMatches(records, normalizedEmail, normalizedName) ==
    \E i \in 1..Len(records) :
        \/ ToLowerCase(Trim(records[i].email)) = normalizedEmail
        \/ normalizeUserName(records[i].name) = normalizedName

\* a signup request that passes the validation of lines 858-865
ClaimValidSignup(r) ==
    /\ r.name # << >>
    /\ r.email # << >>
    /\ r.password
    /\ normalizeUserName(r.name) # << >>

\* C18: a (valid) signup request whose normalized e-mail or normalized name
\* equals that of a confirmed user or of a pending signup is answered 409,
\* sends no mail and leaves both collections unchanged: it is refused at
\* the users check or at the pending check, and no request gets past a
\* check with a match.
C18_SignupConflict ==
    [][ /\ ( AllAuthIdle /\ AllAuthIdle' /\ lastAuth' # lastAuth
             /\ lastAuth'.route = "signup" /\ ClaimValidSignup(lastAuth')
             /\ ClaimSignupMatches(users, ToLowerCase(Trim(lastAuth'.email)),
                             normalizeUserName(lastAuth'.name)) ) =>
               /\ lastAuth'.http = 409
               /\ users' = users /\ pending' = pending /\ audit' = audit
        /\ \A a \in AuthIds :
              /\ ( authCalls[a].pc = "idle" /\ authCalls'[a].pc = "sPending" ) =>
                    ~ClaimSignupMatches(users, authCalls'[a].entry.email, authCalls'[a].entry.name)
              /\ ( authCalls[a].pc = "sPending" /\ authCalls'[a] # authCalls[a] ) =>
                    IF ClaimSignupMatches(pending, authCalls[a].entry.email, authCalls[a].entry.name)
                    THEN /\ authCalls'[a].pc = "idle"
                         /\ lastAuth'.route = "signup" /\ lastAuth'.http = 409
                         /\ users' = users /\ pending' = pending /\ audit' = audit
                    ELSE authCalls'[a].pc = "sWrite"
      ]_vars

\* a signup was refused with 409 for a name that a pending entry holds
C18_Witness ==
    /\ lastAuth.route = "signup"
    /\ lastAuth.http = 409
    /\ AllAuthIdle
    /\ \E i \in 1..Len(pending) :
          /\ normalizeUserName(pending[i].name) = lastAuth.name
          /\ pending[i].email # lastAuth.email

\* C19: in every reachable state no two user records share a normalized
\* e-mail and no two share a normalized name.
C19_UniqueUsers ==
    \A i, j \in 1..Len(users) :
        i < j =>
            /\ normalizeEmail(users[i].email) # normalizeEmail(users[j].email)
            /\ normalizeUserName(users[i].name) # normalizeUserName(users[j].name)

\* C20: a user record that is in the user collection is in it in every
\* later state.
C20_UsersNeverRemoved ==
    [][ \A i \in 1..Len(users) : \E j \in 1..Len(users') : users'[j].id = users[i].id ]_vars

\* C22: captureOrder credits the user only if the status of the first
\* capture of the first purchase unit is exactly COMPLETED; a reply whose
\* first capture has no status, or another status, is refused without credit.
C22_CaptureStatusRequired ==
    [][ \A c \in CallIds :
          ( ContinueStep(c) /\ capCalls[c].ok /\ lastPay'.body.capStatus # "COMPLETED" )
          => /\ lastPay'.http = 400
             /\ users' = users ]_vars

\* the step in which generation call g returns after the oracle's reply
GenReturns(g) == genCalls[g].pc = "await" /\ genCalls'[g].pc = "idle"

\* C23: if the oracle's output cannot be parsed as JSON or has no non-empty
\* name, resolve-or-generate fails with a 5xx error and the persisted record
\* is exactly what it was before the call.
C23_InvalidGenerationNoWrite ==
    [][ \A g \in GenIds :
          ( GenReturns(g) /\ ( ~lastGen'.out.json \/ lastGen'.out.name = << >> ) )
          => /\ lastGen'.http \in 500..599
             /\ ~lastGen'.created
             /\ country' = country ]_vars

\* a document without a name was refused after the record had grown
C23_Witness ==
    /\ lastGen.http = 500
    /\ lastGen.out.json
    /\ lastGen.out.name = << >>
    /\ lastGen.oracleCalls = 1
    /\ Len(country.cities) >= 2

\* C24: for every successful generation the stored name normalizes to the
\* same value as the requested (trimmed) name: the oracle's name is replaced
\* by the trimmed requested name when it normalizes differently and kept
\* otherwise; the city field returned is the stored name.
C24_StoredNameMatchesRequest ==
    [][ \A g \in GenIds :
          ( GenReturns(g) /\ lastGen'.created )
          => LET requested == genCalls[g].city
                 oracle    == lastGen'.out.name
                 stored    == { country'.cities[i].name : i \in 1..Len(country'.cities) }
                                 \ { genCalls[g].cities[i].name : i \in 1..Len(genCalls[g].cities) }
             IN  /\ requested = Trim(requested)
                 /\ stored = { lastGen'.city }
                 /\ normalizeName(lastGen'.city) = normalizeName(requested)
                 /\ lastGen'.city = IF normalizeName(oracle) # normalizeName(requested)
                                    THEN requested ELSE oracle ]_vars

\* both cases have happened: the record holds the oracle's "A-acute", kept
\* for the request "a", and "m", put in place of the oracle's name
C24_Witness ==
    /\ lastGen.created
    /\ \E i \in 1..Len(country.cities) : country.cities[i].name = << Ch.Aacute >>
    /\ \E i \in 1..Len(country.cities) : country.cities[i].name = << Ch.m >>

\* C30: two concurrent calls for two different absent cities can both
\* return created = true while the record ends up with only one of them:
\* every creating call writes the list it read plus its own city, so a city
\* written to the file after that read is gone from the record.
C30_LaterWriteDropsEarlier ==
    [][ \A g \in GenIds :
          ( GenReturns(g) /\ lastGen'.created )
          => /\ Len(country'.cities) = Len(genCalls[g].cities) + 1
             /\ \A i \in 1..Len(country.cities) :
                   ( /\ normalizeName(country.cities[i].name) # normalizeName(genCalls[g].city)
                     /\ \A k \in 1..Len(genCalls[g].cities) :
                           genCalls[g].cities[k].name # country.cities[i].name )
                   => /\ country.cities[i].name \in lastGen'.dropped
                      /\ \A j \in 1..Len(country'.cities) :
                            country'.cities[j].name # country.cities[i].name ]_vars

\* both calls have returned, the later one with created = true for "m"
\* after dropping "L-stroke", which the other call had created: the record
\* holds "m" and not "L-stroke"
C30_Witness ==
    /\ AllGenIdle
    /\ lastGen.created
    /\ lastGen.req = << Ch.m >>
    /\ lastGen.dropped = { << Ch.Lstroke >> }
    /\ { country.cities[i].name : i \in 1..Len(country.cities) } = { << Ch.B >>, << Ch.m >> }

\* C26: if the mail fails after a signup's pending entry was written, then
\* when the error is answered the pending collection no longer holds that
\* entry (with one request at a time it is what it was before the signup),
\* and the signup answers with an error.
C26_MailFailureRollsBack ==
    [][ \A a \in AuthIds :
          /\ ( authCalls[a].pc = "sWrite" /\ authCalls'[a].pc = "sPop" ) =>
                /\ pending' = Append(pending, authCalls[a].entry)
                /\ lastAuth' = lastAuth
          /\ ( authCalls[a].pc = "sPop" /\ authCalls'[a].pc = "idle" ) =>
                /\ lastAuth'.route = "signup"
                /\ lastAuth'.http = 500
                /\ \A i \in 1..Len(pending') : pending'[i].token # authCalls[a].entry.token
                /\ Append(pending', authCalls[a].entry) = pending
                /\ users' = users ]_vars

\* a signup was answered 500 after its mail failed while another signup is
\* pending: its token is in no pending entry and was never mailed
C26_Witness ==
    /\ AllAuthIdle
    /\ lastAuth.route = "signup"
    /\ lastAuth.http = 500
    /\ lastAuth.token \in TokenIds
    /\ lastAuth.token \notin audit.mailed
    /\ PendingWith(lastAuth.token) = 0
    /\ Len(pending) = 1

\* C27: a read of a persisted collection returns the caller's fallback (the
\* empty list) only when the file does not exist; when the file exists but
\* cannot be read or parsed the read fails instead of giving the empty
\* list, for readJsonFile (auth routes) and readUsers (payment route) alike.
C27_FallbackOnlyWhenMissing ==
    readRes.called =>
        /\ readArg.cond = "ok" => ( ~readRes.threw /\ readRes.value = readArg.content )
        /\ readArg.cond = "missing" => ( ~readRes.threw /\ readRes.value = << >> )
        /\ readArg.cond \in {"unreadable", "unparsable"} => readRes.threw

\* the name the lookup goes on with: the alias table's entry for the input's
\* lowercased, folded, space-free key when there is one, else the input
ClaimAlias(input) ==
    LET hits == { i \in 1..Len(COUNTRY_ALIASES) :
                    COUNTRY_ALIASES[i].key = RemoveSpaces(normalizeName(input)) }
    IN  IF hits = {} THEN input ELSE COUNTRY_ALIASES[CHOOSE i \in hits : TRUE].name

\* the files of the directory, by position, that the scan reads and whose
\* record name equals the target under one of the two normalizations
ClaimCandidates(files, target) ==
    { i \in 1..Len(files) :
        /\ EndsWith(files[i].file, JsonSuffix)
        /\ files[i].readable
        /\ files[i].name # << >>
        /\ \/ normalizeName(files[i].name) = normalizeName(target)
           \/ RemoveSpaces(normalizeName(files[i].name)) = RemoveSpaces(normalizeName(target)) }

\* C28: findCountryFileByName replaces the input by its alias when one
\* exists, then returns the first scanned file whose record name equals the
\* target under the fold or the space-free normalization; it returns none
\* for an empty input and when no record matches; a file that cannot be
\* read or parsed is skipped and does not fail the lookup.
C28_FindCountryContract ==
    findRes.called =>
        LET S == ClaimCandidates(findDir, ClaimAlias(findArg))
            r == findRes.result
        IN  /\ ~r.threw
            /\ IF findArg = << >> \/ S = {}
               THEN ~r.found
               ELSE /\ r.found
                    /\ r.file = findDir[CHOOSE i \in S : \A j \in S : i <= j].file
                    /\ r.country = findDir[CHOOSE i \in S : \A j \in S : i <= j].name

\* C21: on the city-creation routes and the AI guide routes the entitlement
\* check comes first: a request whose plan fails planAllows is answered 403
\* with no oracle call, no call left waiting for the oracle and no write to
\* the country record; no oracle call is ever in flight for such a plan, and
\* every step that writes the record completes a call whose plan passes
\* planAllows and is not the free plan.
C21_EntitlementBeforeSideEffects ==
    [][ /\ (lastGen' # lastGen /\ ~planAllows(lastGen'.plan, << "basic", "premium" >>))
              => /\ lastGen'.http = 403
                 /\ lastGen'.oracleCalls = 0
                 /\ ~lastGen'.created
                 /\ country' = country
                 /\ genCalls' = genCalls
        /\ (lastAsk' # lastAsk /\ ~planAllows(lastAsk'.plan, << "premium" >>))
              => /\ lastAsk'.http = 403
                 /\ lastAsk'.oracleCalls = 0
                 /\ country' = country
                 /\ genCalls' = genCalls
        /\ \A g \in GenIds :
              genCalls'[g].pc = "await"
                 => planAllows(genCalls'[g].plan, << "basic", "premium" >>)
        /\ country' # country
              => /\ lastGen'.created
                 /\ lastGen'.plan # "free"
                 /\ planAllows(lastGen'.plan, << "basic", "premium" >>)
      ]_vars

\* a free plan was refused on the city route, a basic plan was refused on a
\* guide route, and a city has been added by an entitled plan
C21_Witness ==
    /\ lastGen.route = "generate" /\ lastGen.plan = "free" /\ lastGen.http = 403
    /\ lastAsk.route = "ask" /\ lastAsk.plan = "basic" /\ lastAsk.http = 403
    /\ Len(country.cities) > 1

\* C25: a request for a name that equals a city of the record after
\* lowercasing, stripping diacritics and ignoring white space never reaches
\* the generation oracle, and a response that reports a created city never
\* follows such a request.
C25_ExistingCityIgnoringWhitespace ==
    \A g \in GenIds :
        genCalls[g].pc = "await"
           => ~\E i \in 1..Len(genCalls[g].cities) :
                 normalizeKey(genCalls[g].cities[i].name) = normalizeKey(genCalls[g].city)

\* C29: a request that ends in an unexpected failure is answered with a fixed
\* message of the route, never with the text of the error that was caught.
C29_GenericFailureMessage ==
    lastGen.http = 500
       => lastGen.error \in {"Failed to generate city data.", "Invalid AI response."}

\* the step in which signup request a ends with its rollback (line 909)
RollbackStep(a) == authCalls[a].pc = "sPop" /\ authCalls'[a].pc = "idle"

\* C32: the rollback of a signup whose mail failed removes from the pending
\* collection exactly the entry that request added and changes nothing else,
\* under every interleaving with other signup and confirm requests.
C32_RollbackRemovesOwnEntry ==
    [][ \A a \in AuthIds :
          RollbackStep(a)
             => pending' = SelectSeq(pending,
                              LAMBDA e : e.token # authCalls[a].entry.token) ]_vars

\* C33: the pending entry of every signup that answered with success is in
\* the pending collection until a confirm request has found its token.
C33_AcknowledgedSignupStaysPending ==
    \A t \in audit.mailed :
        audit.found[t] = 0 => \E i \in 1..Len(pending) : pending[i].token = t

\* C35: a capture-order request that answers with an error leaves every
\* user's persisted tokens and plan as they were before the call, also when
\* the error is the signing of the new session token.
C35_ErrorLeavesUsers ==
    [][ \A c \in CallIds :
          ( ContinueStep(c) /\ lastPay'.http # 200 ) => users' = users ]_vars

\* the step in which confirm request a sends its response
ConfirmEnds(a) ==
    authCalls[a].pc \in {"cUsers", "cWriteUsers"} /\ authCalls'[a].pc = "idle"

\* C34: when a confirm request that has removed a pending entry finishes,
\* with success or with an error, a user record with the entry's e-mail is in
\* the user collection.
C34_ConfirmKeepsSignup ==
    [][ \A a \in AuthIds :
          ConfirmEnds(a)
             => FirstIndexByEmail(users', normalizeEmail(authCalls[a].entry.email)) # 0
      ]_vars

\* C37: no two records of the user collection and the pending collection
\* together share an id.
C37_UniqueIds ==
    LET all == users \o pending
    IN  \A i, j \in 1..Len(all) : i < j => all[i].id # all[j].id

\* the step in which confirm request a writes the user collection
ConfirmWrites(a) == authCalls[a].pc = "cWriteUsers" /\ authCalls'[a].pc = "idle"

\* C31: the write of the user collection by a signup confirmation leaves the
\* tokens and the plan of every user record that is in the collection as
\* they are, so a credit persisted by a capture-order request that ran
\* concurrently is still there when the confirmation has finished.
C31_ConfirmKeepsCredit ==
    [][ \A a \in AuthIds :
          ConfirmWrites(a)
             => \A i \in 1..Len(users) :
                   /\ i <= Len(users')
                   /\ users'[i].id = users[i].id
                   /\ users'[i].tokens = users[i].tokens
                   /\ users'[i].plan = users[i].plan ]_vars

\* C36: the profile route reports, and the entitlement check of the city
\* route decides by, the plan in the payload of the presented session token,
\* whatever plan the user record holds; a token once issued keeps its
\* payload, and the token a successful capture-order returns carries the
\* plan the capture has stored in the user record.
C36_TokenPlanGoverns ==
    [][ /\ sessions \subseteq sessions'
        /\ lastMe' # lastMe
              => /\ lastMe'.session \in sessions
                 /\ lastMe'.plan = lastMe'.session.plan
                 /\ lastMe'.userId = lastMe'.session.userId
        /\ lastGen' # lastGen
              => /\ \E s \in sessions : s.plan = lastGen'.plan
                 /\ lastGen'.http = 403
                       <=> ~planAllows(lastGen'.plan, << "basic", "premium" >>)
        /\ \A c \in CallIds :
              ( ContinueStep(c) /\ lastPay'.http = 200 )
                 => LET i == FirstIndexByEmail(users', normalizeEmail(capCalls[c].email))
                    IN  /\ lastPay'.token \in sessions'
                        /\ lastPay'.token.plan = users'[i].plan
                        /\ lastPay'.token.userId = users'[i].id
      ]_vars

\* after a capture stored plan basic for user u1 and returned a token with
\* plan basic, the token of u1's earlier login is reported with plan free and
\* the user's new tokens, and is refused by the city route
C36_Witness ==
    /\ users[1].plan = "basic"
    /\ lastPay.route = "capture" /\ lastPay.http = 200 /\ lastPay.token.plan = "basic"
    /\ lastMe.called /\ lastMe.userId = "u1" /\ lastMe.plan = "free" /\ lastMe.tokens = 10
    /\ lastGen.plan = "free" /\ lastGen.http = 403

====
